---- MODULE Spec2Model ----
(***************************************************************************)
(* Verification model of the dubbing backend's job pipeline core:          *)
(*   - the worker callback handler set_job_status (jobs/routes.py),        *)
(*   - segment / translation reconciliation check_and_create_segments,     *)
(*   - the SSE channel registries project_channels / audio_channels,       *)
(*   - the job creation flows around enqueue_job (jobs/service.py).        *)
(* Persistent collections are modelled as values, handlers as functions    *)
(* from a store value to a store value; each action applies one handler.   *)
(***************************************************************************)
EXTENDS Integers, Sequences, FiniteSets, TLC

VARIABLES
    jobs,             \* collection "jobs": job id -> job document
    projects,         \* collection "projects": project id -> project fields
    targets,          \* collection "project_targets": <<project, lang>> -> [status, progress]
    segments,         \* collection "project_segments": sequence of documents (insertion order)
    translations,     \* collection "segment_translations": sequence of documents
    assets,           \* collection "assets": sequence of documents
    voice_samples,    \* collection "voice_samples": sample id -> audio_sample_url
    next_oid,         \* next fresh ObjectId
    project_channels, \* pipeline/router.py registry: project id -> set of queues
    audio_channels,   \* audio/router.py registry: channel key -> set of queues
    queues,           \* queue id -> every event put on that asyncio.Queue, in order
    subs,             \* queue id -> the SSE connection that owns it
    published,        \* every dispatch made: [scope, key, event, live]
    sqs,              \* messages accepted by the job queue
    cfg,              \* module-level environment of jobs/service.py
    last,             \* the call completed last: [op, args, outcome]
    ncalls,           \* number of calls completed
    pc                \* in-flight done callbacks of the interleaved handler

storeVars == <<jobs, projects, targets, segments, translations, assets,
               voice_samples, next_oid>>
busVars == <<project_channels, audio_channels, queues, subs, published>>
vars == <<jobs, projects, targets, segments, translations, assets,
          voice_samples, next_oid, project_channels, audio_channels,
          queues, subs, published, sqs, cfg, last, ncalls, pc>>

None == "none"

(***************************************************************************)
(* Bounds of the model.                                                    *)
(***************************************************************************)
MaxSubs == 2       \* SSE connections opened in one behaviour
MaxPub == 2        \* events dispatched in one behaviour of the bus specification

Projects == {"p1", "p2"}
Langs == {"en", "ko", "ja"}
Subs == 1..MaxSubs

(***************************************************************************)
(* collections.defaultdict(set) and dict operations used by the routers.   *)
(***************************************************************************)
EmptyDict == [k \in {} |-> {}]

\* d[k].add(q): indexing a defaultdict creates the entry
DictAdd(d, k, q) ==
    IF k \in DOMAIN d THEN [d EXCEPT ![k] = @ \cup {q}] ELSE d @@ (k :> {q})

\* d[k].discard(q): indexing a defaultdict creates the entry
DictDiscard(d, k, q) ==
    IF k \in DOMAIN d THEN [d EXCEPT ![k] = @ \ {q}] ELSE d @@ (k :> {})

\* del d[k]
DictDel(d, k) == [x \in DOMAIN d \ {k} |-> d[x]]

\* d.get(k, set()): no entry is created
DictGet(d, k) == IF k \in DOMAIN d THEN d[k] ELSE {}

\* f"{project_id}:{language_code}"
ChannelKey(p, l) == p \o ":" \o l

(***************************************************************************)
(* EventBus: events, dispatch functions and SSE subscriptions.             *)
(***************************************************************************)
NoSub == [state |-> "idle", scope |-> None, key |-> None]

\* the connections attached to (scope, key) right now
LiveOn(scope, key) ==
    {s \in Subs : subs[s].state = "connected" /\ subs[s].scope = scope
                  /\ subs[s].key = key}

TargetUpdateEvent(p, l, st, pr) ==
    [type |-> "target_update", project_id |-> p, language_code |-> l,
     status |-> st, progress |-> pr, segment |-> 0, audio |-> None]

AudioCompletedEvent(p, l, seg, key) ==
    [type |-> "audio-completed", project_id |-> p, language_code |-> l,
     status |-> None, progress |-> 0, segment |-> seg, audio |-> key]

\* a dispatch loop that stops after its first listener
PutFirst(q, listeners, ev) ==
    [s \in DOMAIN q |->
        IF s \in listeners /\ \A t \in listeners : s <= t
        THEN Append(q[s], ev) ELSE q[s]]

\* a dispatch loop that puts the event at the head of each queue
PutAllFront(q, listeners, ev) ==
    [s \in DOMAIN q |-> IF s \in listeners THEN <<ev>> \o q[s] ELSE q[s]]

\* for queue in list(listeners): await queue.put(event)
\* asyncio.Queue() is unbounded, so put() never suspends: the loop is one step
PutAll(q, listeners, ev) ==
    [s \in DOMAIN q |-> IF s \in listeners THEN Append(q[s], ev) ELSE q[s]]

\* the bus part of the state as a value: B = [pch, ach, q, pub]
Bus == [pch |-> project_channels, ach |-> audio_channels,
        q |-> queues, pub |-> published]

dispatch_target_update(B, p, l, st, pr) ==
    LET listeners == DictGet(B.pch, p)
        ev == TargetUpdateEvent(p, l, st, pr)
    IN [B EXCEPT !.q = PutAll(B.q, listeners, ev),
                 !.pub = Append(B.pub, [scope |-> "project", key |-> p,
                                        event |-> ev,
                                        live |-> LiveOn("project", p)])]

dispatch_audio_completed(B, p, l, seg, key) ==
    LET channel_key == ChannelKey(p, l)
        listeners == DictGet(B.ach, channel_key)
        ev == AudioCompletedEvent(p, l, seg, key)
    IN [B EXCEPT !.q = PutAll(B.q, listeners, ev),
                 !.pub = Append(B.pub, [scope |-> "audio", key |-> channel_key,
                                        event |-> ev,
                                        live |-> LiveOn("audio", channel_key)])]

\* queue = asyncio.Queue(): a fresh queue per request
FreshSub(s) ==
    /\ subs[s].state = "idle"
    /\ \A t \in Subs : t < s => subs[t].state # "idle"

\* GET /pipeline/{project_id}/events
pipeline_events(s, p) ==
    /\ FreshSub(s)
    /\ project_channels' = DictAdd(project_channels, p, s)
    /\ subs' = [subs EXCEPT ![s] = [state |-> "connected", scope |-> "project",
                                    key |-> p]]
    /\ UNCHANGED <<audio_channels, queues, published>>
    /\ UNCHANGED <<storeVars, sqs, cfg, last, ncalls, pc>>

\* event_generator's finally block of pipeline_events (client disconnect)
pipeline_events_close(s) ==
    /\ subs[s].state = "connected"
    /\ subs[s].scope = "project"
    /\ project_channels' = DictDiscard(project_channels, subs[s].key, s)
    /\ subs' = [subs EXCEPT ![s].state = "closed"]
    /\ UNCHANGED <<audio_channels, queues, published>>
    /\ UNCHANGED <<storeVars, sqs, cfg, last, ncalls, pc>>

\* GET /audio/events?projectId=&language=
audio_events(s, p, l) ==
    /\ FreshSub(s)
    /\ audio_channels' = DictAdd(audio_channels, ChannelKey(p, l), s)
    /\ subs' = [subs EXCEPT ![s] = [state |-> "connected", scope |-> "audio",
                                    key |-> ChannelKey(p, l)]]
    /\ UNCHANGED <<project_channels, queues, published>>
    /\ UNCHANGED <<storeVars, sqs, cfg, last, ncalls, pc>>

\* event_generator's finally block of audio_events (client disconnect)
audio_events_close(s) ==
    /\ subs[s].state = "connected"
    /\ subs[s].scope = "audio"
    /\ LET k == subs[s].key
           d == DictDiscard(audio_channels, k, s)
       IN audio_channels' = IF d[k] = {} THEN DictDel(d, k) ELSE d
    /\ subs' = [subs EXCEPT ![s].state = "closed"]
    /\ UNCHANGED <<project_channels, queues, published>>
    /\ UNCHANGED <<storeVars, sqs, cfg, last, ncalls, pc>>

\* one call of routes.dispatch_target_update
DispatchTargetUpdate(p, l, st, pr) ==
    /\ Len(published) < MaxPub
    /\ LET B == dispatch_target_update(Bus, p, l, st, pr)
       IN queues' = B.q /\ published' = B.pub
    /\ UNCHANGED <<project_channels, audio_channels, subs>>
    /\ UNCHANGED <<storeVars, sqs, cfg, last, ncalls, pc>>

\* one call of routes.dispatch_audio_completed
DispatchAudioCompleted(p, l, seg, key) ==
    /\ Len(published) < MaxPub
    /\ LET B == dispatch_audio_completed(Bus, p, l, seg, key)
       IN queues' = B.q /\ published' = B.pub
    /\ UNCHANGED <<project_channels, audio_channels, subs>>
    /\ UNCHANGED <<storeVars, sqs, cfg, last, ncalls, pc>>


(***************************************************************************)
(* The record store.                                                       *)
(***************************************************************************)
\* target languages declared at project creation, in declaration order
TargetLanguages == [p \in Projects |->
    IF p = "p1" THEN <<"en", "ko">> ELSE <<"ko">>]

\* ProjectService._create_project_targets: one pending target per language
CreatedTargets ==
    [k \in {<<p, l>> \in Projects \X Langs :
                \E i \in DOMAIN TargetLanguages[p] : TargetLanguages[p][i] = l}
        |-> [status |-> "pending", progress |-> 0]]

NoVoices == [l \in Langs |-> None]

\* ProjectService.create_project
CreatedProject ==
    [status |-> "uploading", audio_source |-> None, vocal_source |-> None,
     background_audio_source |-> None, segment_assets_prefix |-> None,
     default_speaker_voices |-> NoVoices]

\* jobs.service.create_job: the document inserted
CreatedJob(p, l, task) ==
    [project_id |-> p, target_lang |-> l, task |-> task, status |-> "queued",
     result_key |-> None, error |-> None, history |-> <<"queued">>]

EmptyJobs == [j \in {} |-> CreatedJob("p1", None, "full_pipeline")]

InitBusVars ==
    /\ project_channels = EmptyDict
    /\ audio_channels = EmptyDict
    /\ queues = [s \in Subs |-> <<>>]
    /\ subs = [s \in Subs |-> NoSub]
    /\ published = <<>>

\* the state after the projects were created and one job per target started
InitStore ==
    /\ jobs = (1 :> CreatedJob("p1", "en", "full_pipeline"))
              @@ (2 :> CreatedJob("p1", "ko", "full_pipeline"))
              @@ (3 :> CreatedJob("p2", "ko", "full_pipeline"))
    /\ projects = [p \in Projects |-> CreatedProject]
    /\ targets = CreatedTargets
    /\ segments = <<>>
    /\ translations = <<>>
    /\ assets = <<>>
    /\ voice_samples = [v \in {"vs1"} |->
                          [audio_sample_url |-> <<>>, prompt_text |-> None]]
    /\ next_oid = 4

NoCall == [op |-> None]

DefaultCfg == [queue_url |-> TRUE, dev |-> FALSE, fifo |-> TRUE, group_id |-> None]

Init ==
    /\ InitStore
    /\ InitBusVars
    /\ sqs = <<>>
    /\ cfg = DefaultCfg
    /\ last = NoCall
    /\ ncalls = 0
    /\ pc = <<>>

(***************************************************************************)
(* Values of free-form callback metadata.  A JSON value used where the     *)
(* code expects a number is an int, a string of digits, or anything else.  *)
(***************************************************************************)
Absent == [t |-> "absent", n |-> 0]     \* the key is not in the dict
I(k) == [t |-> "int", n |-> k]          \* the int k
S(k) == [t |-> "str", n |-> k]          \* the string of k's decimal digits
Bad == [t |-> "bad", n |-> 0]           \* a value int() and float() reject
Raise == [t |-> "raise", n |-> 0]       \* ValueError / TypeError was raised

\* int(v) for a present key
IntOf(v) == IF v.t \in {"int", "str"} THEN I(v.n) ELSE Raise

\* float(seg.get(key, 0)) succeeds
FloatOk(v) == v.t # "bad"

\* str(ObjectId) and ObjectId(str)
StrOid(oid) == S(oid)

\* the store as a value
Store == [jobs |-> jobs, projects |-> projects, targets |-> targets,
          segments |-> segments, translations |-> translations,
          assets |-> assets, voice_samples |-> voice_samples,
          next_oid |-> next_oid]

\* the assignment of a store value to the store variables
SetStore(D) ==
    /\ jobs' = D.jobs /\ projects' = D.projects /\ targets' = D.targets
    /\ segments' = D.segments /\ translations' = D.translations
    /\ assets' = D.assets /\ voice_samples' = D.voice_samples
    /\ next_oid' = D.next_oid

(***************************************************************************)
(* SegmentReconciler: check_and_create_segments.                           *)
(***************************************************************************)
\* a project id as stored in a document: the str, or ObjectId(str)
PidStr(p) == [t |-> "str", v |-> p]
PidOid(p) == [t |-> "oid", v |-> p]

\* SegmentService.get_segments_by_project: the project's rows
get_segments_by_project(D, p) ==
    LET Mine(d) == d.project_id.v = p IN SelectSeq(D.segments, Mine)

\* segment_ids_map built by assignment in iteration order: the last row wins
IndexMap(docs) ==
    [k \in {docs[i].segment_index : i \in DOMAIN docs} |->
        LET is == {i \in DOMAIN docs : docs[i].segment_index = k}
        IN docs[CHOOSE m \in is : \A x \in is : x <= m]._id]

\* segment_data["segment_index"] of input element seg at Python position i
CreateIndex(seg, i) ==
    IF ~FloatOk(seg.start) THEN Raise
    ELSE IF seg.speaker_tag # None
         THEN (IF seg.segment_index.t = "absent" THEN I(i) ELSE seg.segment_index)
    ELSE IF seg.seg_idx.t # "absent" THEN IntOf(seg.seg_idx)
    ELSE IF seg.segment_id.t # "absent"
         THEN (IF IntOf(seg.segment_id) = Raise THEN I(i) ELSE IntOf(seg.segment_id))
    ELSE I(i)

\* seg_index of input element seg when its translation is built
TranslationIndex(seg, i) ==
    IF seg.segment_index.t # "absent" THEN seg.segment_index
    ELSE IF seg.seg_idx.t # "absent" THEN IntOf(seg.seg_idx)
    ELSE IF seg.segment_id.t # "absent"
         THEN (IF IntOf(seg.segment_id) = Raise THEN I(i) ELSE IntOf(seg.segment_id))
    ELSE I(i)

\* the document built for input element seg
SegmentData(p, seg, i, oid) ==
    [_id |-> oid, project_id |-> PidStr(p),
     speaker_tag |-> IF seg.speaker_tag # None THEN seg.speaker_tag ELSE seg.speaker,
     segment_index |-> CreateIndex(seg, i)]

\* the existing-segment lookup: None when the lookup raised
LookupExisting(D, p, lookup_fails) ==
    IF lookup_fails THEN [failed |-> TRUE, rows |-> <<>>]
    ELSE [failed |-> FALSE, rows |-> get_segments_by_project(D, p)]

\* lines 163-225: create the project's segments when none were found.
\* Result: the store, the index -> id map, and how the block ended.
CreateSegments(D, p, segs, existing, insert_fails) ==
    IF existing.rows # <<>>
    THEN [D |-> D, map |-> IndexMap(existing.rows), end |-> "next", created |-> FALSE]
    ELSE IF \E i \in DOMAIN segs : CreateIndex(segs[i], i - 1) = Raise
    THEN [D |-> D, map |-> <<>>, end |-> "raise", created |-> FALSE]
    ELSE IF segs = <<>>
    THEN [D |-> D, map |-> <<>>, end |-> "next", created |-> FALSE]
    ELSE IF insert_fails
    THEN [D |-> D, map |-> <<>>, end |-> "return", created |-> FALSE]
    ELSE LET docs == [i \in DOMAIN segs |->
                         SegmentData(p, segs[i], i - 1, D.next_oid + i - 1)]
         IN [D |-> [D EXCEPT !.segments = D.segments \o docs,
                             !.next_oid = D.next_oid + Len(segs)],
             map |-> IndexMap(docs), end |-> "next", created |-> TRUE]

\* a translation that drops the text
TranslatedTextEmpty(seg, i, texts) == ""

\* translated_texts[i] when given, else the element's prompt_text
TranslatedText(seg, i, texts) ==
    IF texts # <<>> /\ i < Len(texts) THEN texts[i + 1]
    ELSE IF seg.prompt_text = None THEN "" ELSE seg.prompt_text

\* translation_data of the elements whose index is in the map, in order
RECURSIVE TranslationsToCreate(_, _, _, _, _)
TranslationsToCreate(segs, i, lang, texts, map) ==
    IF i > Len(segs) THEN <<>>
    ELSE LET seg == segs[i]
             idx == TranslationIndex(seg, i - 1)
             rest == TranslationsToCreate(segs, i + 1, lang, texts, map)
         IN IF idx \notin DOMAIN map THEN rest
            ELSE <<[segment_id |-> StrOid(map[idx]), language_code |-> lang,
                    target_text |-> TranslatedText(seg, i - 1, texts),
                    segment_audio_url |-> seg.audio_file]>> \o rest

\* insert_one in place of the upsert
InsertAlways(trs, t, oid) ==
    Append(trs, [_id |-> oid, segment_id |-> t.segment_id,
                 language_code |-> t.language_code,
                 target_text |-> t.target_text,
                 segment_audio_url |-> t.segment_audio_url])

\* an upsert that keeps an audio URL the row already has
UpsertKeepAudio(trs, t, oid) ==
    LET hits == {i \in DOMAIN trs : trs[i].segment_id = t.segment_id
                                    /\ trs[i].language_code = t.language_code}
    IN IF hits = {}
       THEN Append(trs, [_id |-> oid, segment_id |-> t.segment_id,
                         language_code |-> t.language_code,
                         target_text |-> t.target_text,
                         segment_audio_url |-> t.segment_audio_url])
       ELSE LET f == CHOOSE m \in hits : \A x \in hits : m <= x
            IN [trs EXCEPT ![f].target_text = t.target_text,
                           ![f].segment_audio_url =
                               IF @ # None THEN @ ELSE t.segment_audio_url]

\* update_one(filter, {"$set": trans}, upsert=True) on segment_translations
Upsert(trs, t, oid) ==
    LET hits == {i \in DOMAIN trs : trs[i].segment_id = t.segment_id
                                    /\ trs[i].language_code = t.language_code}
    IN IF hits = {}
       THEN Append(trs, [_id |-> oid, segment_id |-> t.segment_id,
                         language_code |-> t.language_code,
                         target_text |-> t.target_text,
                         segment_audio_url |-> t.segment_audio_url])
       ELSE LET f == CHOOSE m \in hits : \A x \in hits : m <= x
            IN [trs EXCEPT ![f].target_text = t.target_text,
                           ![f].segment_audio_url = t.segment_audio_url]

RECURSIVE UpsertAll(_, _, _)
UpsertAll(D, todo, i) ==
    IF i > Len(todo) THEN D
    ELSE LET trs == Upsert(D.translations, todo[i], D.next_oid)
         IN UpsertAll([D EXCEPT !.translations = trs,
                                !.next_oid = IF Len(trs) > Len(D.translations)
                                             THEN D.next_oid + 1 ELSE D.next_oid],
                      todo, i + 1)

\* lines 227-294: upsert one translation per matched element and return
WriteTranslations(D, segs, lang, texts, map, created, existing, upsert_fails) ==
    LET raises == /\ segs # <<>> /\ lang # None
                  /\ \E i \in DOMAIN segs : TranslationIndex(segs[i], i - 1) = Raise
        todo == TranslationsToCreate(segs, 1, lang, texts, map)
        D1 == IF segs # <<>> /\ lang # None /\ ~upsert_fails
              THEN UpsertAll(D, todo, 1) ELSE D
    IN IF raises THEN [D |-> D, raised |-> TRUE, ret |-> FALSE]
       \* return segments_created or len(existing_segments) > 0
       ELSE IF ~created /\ existing.failed
            THEN [D |-> D1, raised |-> TRUE, ret |-> FALSE]
       ELSE [D |-> D1, raised |-> FALSE,
             ret |-> created \/ existing.rows # <<>>]

\* env: [lookup_fails, insert_fails, upsert_fails]
check_and_create_segments(D, p, segs, lang, texts, env) ==
    LET existing == LookupExisting(D, p, env.lookup_fails)
        c == CreateSegments(D, p, segs, existing, env.insert_fails)
    IN IF c.end = "raise" THEN [D |-> D, raised |-> TRUE, ret |-> FALSE]
       ELSE IF c.end = "return" THEN [D |-> D, raised |-> FALSE, ret |-> FALSE]
       ELSE WriteTranslations(c.D, segs, lang, texts, c.map, c.created,
                              existing, env.upsert_fails)

(***************************************************************************)
(* PipelineDispatcher: the worker callback POST /jobs/{job_id}/status.     *)
(* A payload is [status, result_key, error, has_meta, md]; md holds the    *)
(* metadata keys the handler reads, None / Absent / <<>> when not given.   *)
(* env holds the outcomes of the collaborators the handler awaits.         *)
(***************************************************************************)
Md0 ==
    [stage |-> None, target_lang |-> None, language_code |-> None,
     voice_sample_id |-> None, audio_sample_url |-> None, prompt_text |-> None,
     audio_key |-> None, vocals_key |-> None, background_key |-> None,
     speaker_voices |-> None, speaker_refs |-> None, segments |-> <<>>,
     segment_id |-> Absent, metadata_key |-> None, translations |-> <<>>,
     translated_texts |-> <<>>, result_key |-> None, error |-> None,
     segment_assets_prefix |-> None]

\* one element of metadata.segments
Seg0 ==
    [speaker_tag |-> None, speaker |-> None, segment_index |-> Absent,
     seg_idx |-> Absent, segment_id |-> Absent, start |-> Absent,
     prompt_text |-> None, audio_file |-> None, index |-> Absent,
     audio_key |-> None]

Env0 ==
    [lookup_fails |-> FALSE, insert_fails |-> FALSE, upsert_fails |-> FALSE,
     asset_fails |-> FALSE, s3_ok |-> TRUE, s3_segments |-> <<>>,
     s3_translations |-> <<>>, targets_fail |-> FALSE,
     project_fails |-> FALSE, duration |-> "ok"]

\* a stage table without the "no update" default
stage_progress_any(stage) == <<"processing", 1>>

\* the stage branches of set_job_status: target_update of each stage
stage_progress(stage) ==
    CASE stage = "starting" -> <<"processing", 1>>
      [] stage = "asr_started" -> <<"processing", 10>>
      [] stage = "asr_completed" -> <<"processing", 20>>
      [] stage = "translation_started" -> <<"processing", 21>>
      [] stage = "translation_completed" -> <<"processing", 35>>
      [] stage = "tts_started" -> <<"processing", 36>>
      [] stage = "tts_completed" -> <<"completed", 70>>
      [] stage = "segment_tts_completed" -> <<"completed", 70>>
      [] stage = "mux_started" -> <<"processing", 71>>
      [] stage = "done" -> <<"completed", 100>>
      [] stage = "failed" -> <<"failed", 0>>
      [] OTHER -> <<None, 0>>

language_independent_stages == {"downloaded", "stt_completed"}

\* an update_job_status that keeps only the latest history entry
update_job_status_reset(D, j, pl) ==
    [D |-> [D EXCEPT !.jobs[j].status = pl.status,
                     !.jobs[j].history = <<pl.status>>],
     raised |-> FALSE]

\* an update_job_status that writes nothing
update_job_status_skip(D, j, pl) == [D |-> D, raised |-> FALSE]

\* jobs.service.update_job_status: the job write, then the project write
update_job_status(D, j, pl) ==
    IF j \notin DOMAIN D.jobs THEN [D |-> D, raised |-> TRUE]
    ELSE LET job == D.jobs[j]
             updated == [job EXCEPT
                 !.status = pl.status,
                 !.history = Append(@, pl.status),
                 !.result_key = IF pl.result_key # None THEN pl.result_key ELSE @,
                 !.error = IF pl.error # None THEN pl.error ELSE @]
             p == job.project_id
             D1 == [D EXCEPT !.jobs[j] = updated]
             status == IF pl.has_meta /\ pl.md.stage # None
                       THEN pl.md.stage ELSE pl.status
             prefix == IF pl.has_meta THEN pl.md.segment_assets_prefix ELSE None
         IN [D |-> IF p \in DOMAIN D.projects
                   THEN [D1 EXCEPT
                       !.projects[p].status = status,
                       !.projects[p].segment_assets_prefix =
                           IF prefix # None THEN prefix ELSE @]
                   ELSE D1,
             raised |-> FALSE]

\* f"/api/storage/media/{result_key}"
MediaUrl(k) == <<"/api/storage/media/", k>>

\* lines 390-444: a done callback naming a voice sample patches that sample
UpdateVoiceSample(D, pl, result) ==
    LET md == pl.md
        v == md.voice_sample_id
        url == IF md.audio_sample_url # None THEN <<md.audio_sample_url>>
               ELSE IF result.result_key # None THEN MediaUrl(result.result_key)
               ELSE <<>>
    IN IF pl.has_meta /\ v # None /\ result.status = "done"
          /\ v \in DOMAIN D.voice_samples
       THEN [D EXCEPT
               !.voice_samples[v].audio_sample_url = IF url # <<>> THEN url ELSE @,
               !.voice_samples[v].prompt_text =
                   IF md.prompt_text # None THEN md.prompt_text ELSE @]
       ELSE D

\* ProjectService.update_project: $set of the fields given; upd maps field
\* names to values.  A failure is caught by every caller in set_job_status.
update_project(D, p, upd, fails) ==
    IF fails \/ p \notin DOMAIN D.projects THEN D
    ELSE [D EXCEPT !.projects[p] =
             [f \in DOMAIN @ |-> IF f \in DOMAIN upd THEN upd[f] ELSE @[f]]]

\* a handler without the fallback to the project's targets
FirstTargetLanguageNone(D, p, fails) == None

\* ProjectService.get_targets_by_project, then extract_language_code(targets[0])
FirstTargetLanguage(D, p, fails) ==
    LET ls == IF p \in Projects THEN TargetLanguages[p] ELSE <<>>
        Has(l) == <<p, l>> \in DOMAIN D.targets
        found == SelectSeq(ls, Has)
    IN IF fails \/ found = <<>> THEN None ELSE found[1]

\* a target write that never lowers the progress
UpdateTargetMonotone(D, B, p, lang, tu) ==
    IF tu[1] = None \/ lang = None \/ <<p, lang>> \notin DOMAIN D.targets
       \/ tu[2] < D.targets[<<p, lang>>].progress
    THEN [D |-> D, B |-> B, raised |-> FALSE]
    ELSE [D |-> [D EXCEPT !.targets[<<p, lang>>] =
                     [status |-> tu[1], progress |-> tu[2]]],
          B |-> dispatch_target_update(B, p, lang, tu[1], tu[2]),
          raised |-> FALSE]

\* a broadcast that does not wait for the target write to succeed
UpdateTargetAnnounced(D, B, p, lang, tu) ==
    IF tu[1] = None \/ lang = None
    THEN [D |-> D, B |-> B, raised |-> FALSE]
    ELSE [D |-> IF <<p, lang>> \in DOMAIN D.targets
                THEN [D EXCEPT !.targets[<<p, lang>>] =
                         [status |-> tu[1], progress |-> tu[2]]]
                ELSE D,
          B |-> dispatch_target_update(B, p, lang, tu[1], tu[2]),
          raised |-> FALSE]

\* lines 794-812: write the target, then broadcast it; a missing target
\* raises 404 inside the try, so nothing is broadcast
UpdateTarget(D, B, p, lang, tu) ==
    IF tu[1] = None \/ lang = None \/ <<p, lang>> \notin DOMAIN D.targets
    THEN [D |-> D, B |-> B, raised |-> FALSE]
    ELSE [D |-> [D EXCEPT !.targets[<<p, lang>>] =
                     [status |-> tu[1], progress |-> tu[2]]],
          B |-> dispatch_target_update(B, p, lang, tu[1], tu[2]),
          raised |-> FALSE]

\* AssetService.create_asset: a new Asset record for the payload
create_asset(D, payload) ==
    [D EXCEPT !.assets = Append(@, [_id |-> D.next_oid,
                                    project_id |-> payload.project_id,
                                    language_code |-> payload.language_code,
                                    asset_type |-> payload.asset_type,
                                    file_path |-> payload.file_path]),
              !.next_oid = @ + 1]

\* create_asset_from_result: AssetService.create_asset inside try / except
create_asset_from_result(D, p, lang, key, fails) ==
    IF fails THEN D
    ELSE create_asset(D, [project_id |-> p, language_code |-> lang,
                          asset_type |-> "preview", file_path |-> key])

\* a completion that gives up when the metadata names an S3 document
process_md_completion_strict(D, p, md, result_key, defaultTarget, env) ==
    [D |-> D, raised |-> md.metadata_key # None, ret |-> FALSE]

process_md_completion(D, p, md, result_key, defaultTarget, env) ==
    LET target_lang == IF md.target_lang # None THEN md.target_lang
                       ELSE defaultTarget
        D1 == IF result_key # None
              THEN create_asset_from_result(D, p, target_lang, result_key,
                                            env.asset_fails)
              ELSE D
        Inline(Dx) ==
            IF md.segments # <<>>
            THEN check_and_create_segments(Dx, p, md.segments, target_lang,
                                           <<>>, env)
            ELSE [D |-> Dx, raised |-> FALSE, ret |-> FALSE]
        texts == IF env.s3_translations # <<>> THEN env.s3_translations
                 ELSE IF md.translations # <<>> THEN md.translations
                 ELSE md.translated_texts
        fetched == IF env.s3_segments # <<>>
                   THEN check_and_create_segments(D1, p, env.s3_segments,
                                                  target_lang, texts, env)
                   ELSE [D |-> D1, raised |-> FALSE, ret |-> FALSE]
    IN IF target_lang = None THEN [D |-> D, raised |-> FALSE, ret |-> FALSE]
       ELSE IF md.metadata_key = None THEN Inline(D1)
       ELSE IF ~env.s3_ok THEN Inline(D1)
       ELSE IF fetched.raised THEN Inline(fetched.D)
       ELSE fetched

\* lines 578-629: the segment id named by the metadata, or found by the
\* index of the first reported segment; Absent when it cannot be resolved
ResolveSegmentId(D, p, md) ==
    LET first == md.segments[1]
        hits == {i \in DOMAIN D.segments :
                    /\ D.segments[i].project_id = PidOid(p)
                    /\ D.segments[i].segment_index = first.index}
        byIndex == IF first.index.t = "absent" \/ hits = {} THEN Absent
                   ELSE StrOid(D.segments[CHOOSE m \in hits :
                                              \A x \in hits : m <= x]._id)
        sid == IF md.segment_id.t # "absent" THEN md.segment_id ELSE byIndex
    IN IF sid.t = "str" /\ \E i \in DOMAIN D.segments : D.segments[i]._id = sid.n
       THEN sid ELSE Absent

\* a handler that broadcasts the audio without probing its duration
segment_tts_completed_eager(D, B, p, lang, md, env) ==
    LET sid == ResolveSegmentId(D, p, md)
        keyed == {i \in DOMAIN md.segments : md.segments[i].audio_key # None}
        audio_key == md.segments[CHOOSE m \in keyed : \A x \in keyed : m <= x].audio_key
        hits == {i \in DOMAIN D.translations :
                    /\ D.translations[i].segment_id = sid
                    /\ D.translations[i].language_code = lang}
        f == CHOOSE m \in hits : \A x \in hits : m <= x
    IN IF md.segments = <<>> \/ lang = None \/ sid = Absent \/ keyed = {}
          \/ hits = {} \/ env.upsert_fails
       THEN [D |-> D, B |-> B]
       ELSE [D |-> [D EXCEPT !.translations[f].segment_audio_url = audio_key],
             B |-> dispatch_audio_completed(B, p, lang, sid.n, audio_key)]

\* lines 567-719: patch the translation's audio URL and broadcast it
segment_tts_completed(D, B, p, lang, md, env) ==
    LET sid == ResolveSegmentId(D, p, md)
        keyed == {i \in DOMAIN md.segments : md.segments[i].audio_key # None}
        audio_key == md.segments[CHOOSE m \in keyed : \A x \in keyed : m <= x].audio_key
        hits == {i \in DOMAIN D.translations :
                    /\ D.translations[i].segment_id = sid
                    /\ D.translations[i].language_code = lang}
        f == CHOOSE m \in hits : \A x \in hits : m <= x
    IN IF md.segments = <<>> \/ lang = None \/ sid = Absent \/ keyed = {}
          \/ hits = {} \/ env.upsert_fails
       THEN [D |-> D, B |-> B]
       ELSE [D |-> [D EXCEPT !.translations[f].segment_audio_url = audio_key],
             B |-> IF env.duration = "ok"
                   THEN dispatch_audio_completed(B, p, lang, sid.n, audio_key)
                   ELSE B]

\* lines 732-734: metadata.get("speaker_voices") or metadata.get("speaker_refs")
ReportedVoices(md) ==
    IF md.speaker_voices # None THEN md.speaker_voices ELSE md.speaker_refs

\* lines 748-759: the map read before, with the reported language added,
\* written as the project's whole map
WriteVoices(D, p, lang, voices, existing, fails) ==
    update_project(D, p,
        [f \in {"default_speaker_voices"} |-> [existing EXCEPT ![lang] = voices]],
        fails)

\* lines 731-773: merge the reported voices into the project's map
DoneVoices(D, p, lang, md, env) ==
    IF lang # None /\ ReportedVoices(md) # None /\ p \in DOMAIN D.projects
    THEN WriteVoices(D, p, lang, ReportedVoices(md),
                     D.projects[p].default_speaker_voices, env.project_fails)
    ELSE D

\* the side effects of one stage (lines 485-790), before the target update
StageBranch(D, B, p, stage, lang, md, result, env) ==
    CASE stage = "asr_completed" ->
           LET given == [audio_source |-> md.audio_key,
                         vocal_source |-> md.vocals_key,
                         background_audio_source |-> md.background_key]
               upd == [f \in {g \in DOMAIN given : given[g] # None} |-> given[f]]
           IN [D |-> update_project(D, p, upd, env.project_fails),
               B |-> B, raised |-> FALSE]
      [] stage = "tts_completed" ->
           [D |-> IF md.speaker_voices # None /\ lang # None
                  THEN update_project(D, p,
                         [f \in {"default_speaker_voices"} |->
                             [l \in Langs |-> IF l = lang
                                              THEN md.speaker_voices ELSE None]],
                         env.project_fails)
                  ELSE D,
            B |-> B, raised |-> FALSE]
      [] stage = "segment_tts_completed" ->
           LET r == segment_tts_completed(D, B, p, lang, md, env)
           IN [D |-> r.D, B |-> r.B, raised |-> FALSE]
      [] stage = "done" ->
           LET D1 == DoneVoices(D, p, lang, md, env)
               final_result_key == IF md.result_key # None THEN md.result_key
                                   ELSE result.result_key
               r == process_md_completion(D1, p, md, final_result_key, lang, env)
           IN [D |-> r.D, B |-> B, raised |-> r.raised]
      [] OTHER -> [D |-> D, B |-> B, raised |-> FALSE]

\* POST /jobs/{job_id}/status.  Result: the store, the bus, and whether the
\* handler raised instead of returning the updated job.
set_job_status(D0, B0, j, pl, env) ==
    LET u == update_job_status(D0, j, pl)
        result == u.D.jobs[j]
        md == pl.md
        D1 == UpdateVoiceSample(u.D, pl, result)
        p == result.project_id
        stage == md.stage
        given == IF md.target_lang # None THEN md.target_lang
                 ELSE md.language_code
        language_code ==
            IF given = None /\ stage \notin language_independent_stages
            THEN FirstTargetLanguage(D1, p, env.targets_fail)
            ELSE given
        br == StageBranch(D1, B0, p, stage, language_code, md, result, env)
    IN IF u.raised THEN [D |-> D0, B |-> B0, raised |-> TRUE]
       ELSE IF ~pl.has_meta \/ stage = None
            THEN [D |-> D1, B |-> B0, raised |-> FALSE]
       ELSE IF language_code = None /\ stage \notin language_independent_stages
            THEN [D |-> D1, B |-> B0, raised |-> FALSE]
       ELSE IF br.raised THEN br
       ELSE UpdateTarget(br.D, br.B, p, language_code, stage_progress(stage))

\* the language the handler resolves for a callback (lines 455-476)
ResolvedLanguage(D, j, pl, env) ==
    LET md == pl.md
        given == IF md.target_lang # None THEN md.target_lang
                 ELSE md.language_code
    IN IF given = None /\ md.stage \notin language_independent_stages
       THEN FirstTargetLanguage(D, D.jobs[j].project_id, env.targets_fail)
       ELSE given

MaxCalls == 2      \* callbacks handled in one behaviour

\* one worker callback, handled without interleaving
SetJobStatus(j, pl, env) ==
    /\ ncalls < MaxCalls
    /\ \E r \in {set_job_status(Store, Bus, j, pl, env)} :
          /\ SetStore(r.D)
          /\ queues' = r.B.q
          /\ published' = r.B.pub
          /\ last' = [op |-> "set_job_status", job |-> j, payload |-> pl,
                      env |-> env,
                      language_code |-> ResolvedLanguage(Store, j, pl, env),
                      response |-> IF r.raised THEN "error" ELSE "job"]
    /\ ncalls' = ncalls + 1
    /\ UNCHANGED <<project_channels, audio_channels, subs, sqs, cfg, pc>>

(***************************************************************************)
(* JobQueueGateway: job creation and enqueue (jobs/service.py).            *)
(* cfg holds the process environment: JOB_QUEUE_URL set, APP_ENV a dev     *)
(* environment, JOB_QUEUE_FIFO, JOB_QUEUE_MESSAGE_GROUP_ID.                *)
(* The outcome of the collaborators of one job is one of                   *)
(*   "ok"                    every store and queue operation succeeds      *)
(*   "enqueue_fails"         send_message raises ClientError               *)
(*   "enqueue_and_mark_fail" as above, and the store then rejects the      *)
(*                           write that marks the job failed               *)
(*   "create_fails"          insert_one of the job raises PyMongoError     *)
(***************************************************************************)
Outcomes == {"ok", "enqueue_fails", "enqueue_and_mark_fail", "create_fails"}

\* create_job with job_oid = ObjectId() drawn by the caller: the id is used
\* up whether or not the insert succeeds
create_job(D, p, lang, task, out) ==
    LET oid == D.next_oid
        D1 == [D EXCEPT !.next_oid = oid + 1]
    IN IF out = "create_fails"
       THEN [D |-> D1, raised |-> TRUE, job_id |-> oid]
       ELSE [D |-> [D1 EXCEPT !.jobs = (oid :> CreatedJob(p, lang, task)) @@ @],
             raised |-> FALSE, job_id |-> oid]

\* a message whose deduplication id is the project instead of the job
JobMessageByProject(c, D, j) ==
    [job_id |-> j, project_id |-> D.jobs[j].project_id, task |-> D.jobs[j].task,
     target_lang |-> D.jobs[j].target_lang,
     group_id |-> IF c.fifo THEN D.jobs[j].project_id ELSE None,
     dedup_id |-> IF c.fifo THEN D.jobs[j].project_id ELSE 0]

\* the message sent for a job: MessageGroupId and MessageDeduplicationId
\* are set for a FIFO queue only
JobMessage(c, D, j) ==
    [job_id |-> j, project_id |-> D.jobs[j].project_id, task |-> D.jobs[j].task,
     target_lang |-> D.jobs[j].target_lang,
     group_id |-> IF ~c.fifo THEN None
                  ELSE IF c.group_id # None THEN c.group_id
                  ELSE D.jobs[j].project_id,
     dedup_id |-> IF c.fifo THEN j ELSE 0]

\* enqueue_job: how the call ends, and the queue after it
enqueue_job(c, Q, D, j, out) ==
    IF ~c.queue_url
    THEN [Q |-> Q, end |-> IF c.dev THEN "skipped" ELSE "HTTPException"]
    ELSE IF out = "ok"
    THEN [Q |-> Append(Q, JobMessage(c, D, j)), end |-> "published"]
    ELSE [Q |-> Q, end |-> "SqsPublishError"]

\* a gateway that never records the failure
mark_job_failed_skip(D, j, out) == [D |-> D, raised |-> FALSE]

\* mark_job_failed: update_job_status with status failed and no metadata
mark_job_failed(D, j, out) ==
    IF out = "enqueue_and_mark_fail" THEN [D |-> D, raised |-> TRUE]
    ELSE update_job_status(D, j,
             [status |-> "failed", result_key |-> None,
              error |-> "sqs_publish_failed", has_meta |-> FALSE, md |-> Md0])

\* start_jobs_for_targets, from the i-th language on.  R is the result so
\* far: [D, Q, created, job_ids, raised].
RECURSIVE FanOutFrom(_, _, _, _, _, _)
FanOutFrom(R, c, p, langs, outs, i) ==
    IF i > Len(langs) THEN R
    ELSE LET cj == create_job(R.D, p, langs[i], "full_pipeline", outs[i])
             e == enqueue_job(c, R.Q, cj.D, cj.job_id, outs[i])
             ids == Append(R.job_ids, cj.job_id)
             mk == mark_job_failed(cj.D, cj.job_id, outs[i])
         IN IF ~cj.raised /\ e.end \in {"published", "skipped"}
            THEN FanOutFrom([R EXCEPT !.D = cj.D, !.Q = e.Q, !.job_ids = ids,
                                      !.created = Append(@, [job_id |-> cj.job_id,
                                                             target_lang |-> langs[i]])],
                            c, p, langs, outs, i + 1)
            \* except (SqsPublishError, Exception): mark_job_failed, unguarded
            ELSE IF mk.raised
                 THEN [R EXCEPT !.D = cj.D, !.job_ids = ids, !.raised = TRUE]
                 ELSE FanOutFrom([R EXCEPT !.D = mk.D, !.job_ids = ids],
                                 c, p, langs, outs, i + 1)

start_jobs_for_targets(D, Q, c, p, langs, outs) ==
    LET R == FanOutFrom([D |-> D, Q |-> Q, created |-> <<>>, job_ids |-> <<>>,
                         raised |-> FALSE], c, p, langs, outs, 1)
    IN IF ~R.raised /\ R.created = <<>> THEN [R EXCEPT !.raised = TRUE] ELSE R

\* the pattern of start_job, start_segment_tts_job, start_segments_tts_job:
\* create_job outside the try, mark failed on SqsPublishError only
CreateThenEnqueue(D, Q, c, p, lang, task, out) ==
    LET cj == create_job(D, p, lang, task, out)
        e == enqueue_job(c, Q, cj.D, cj.job_id, out)
        mk == mark_job_failed(cj.D, cj.job_id, out)
    IN IF cj.raised THEN [D |-> cj.D, Q |-> Q, raised |-> TRUE, job_id |-> cj.job_id]
       ELSE IF e.end = "SqsPublishError"
            THEN [D |-> IF mk.raised THEN cj.D ELSE mk.D, Q |-> Q,
                  raised |-> TRUE, job_id |-> cj.job_id]
       ELSE [D |-> cj.D, Q |-> e.Q, raised |-> e.end = "HTTPException",
             job_id |-> cj.job_id]

start_job(D, Q, c, p, out) ==
    CreateThenEnqueue(D, Q, c, p, None, "full_pipeline", out)

start_segment_tts_job(D, Q, c, p, out) ==
    CreateThenEnqueue(D, Q, c, p, None, "segment_tts", out)

\* find_full_pipeline_job
find_full_pipeline_job(D, p, lang) ==
    {j \in DOMAIN D.jobs : /\ D.jobs[j].project_id = p
                           /\ D.jobs[j].target_lang = lang
                           /\ D.jobs[j].task = "full_pipeline"}

\* start_segments_tts_job with a voice sample named: 404 without the
\* project or without a full_pipeline job of the language
start_segments_tts_job(D, Q, c, p, lang, out) ==
    IF p \notin DOMAIN D.projects \/ find_full_pipeline_job(D, p, lang) = {}
    THEN [D |-> D, Q |-> Q, raised |-> TRUE, job_id |-> 0]
    ELSE CreateThenEnqueue(D, Q, c, p, lang, "segment_tts", out)

\* f"voice-sample-{voice_sample.sample_id}"
VoiceSampleProject(v) == "voice-sample-" \o v

\* finish_voice_sample_upload: the sample, then create_job and enqueue_job
\* inside try / except Exception, which only logs
finish_voice_sample_upload(D, Q, c, v, out) ==
    LET D1 == [D EXCEPT !.voice_samples =
                  (v :> [audio_sample_url |-> <<>>, prompt_text |-> None]) @@ @]
        cj == create_job(D1, VoiceSampleProject(v), None, "test_synthesis", out)
        e == enqueue_job(c, Q, cj.D, cj.job_id, out)
    IN IF cj.raised THEN [D |-> cj.D, Q |-> Q, raised |-> FALSE, job_id |-> cj.job_id]
       ELSE [D |-> cj.D, Q |-> e.Q, raised |-> FALSE, job_id |-> cj.job_id]

MaxStarts == 2          \* job-creation requests in one behaviour

\* POST of a project's target languages: start_jobs_for_targets
StartJobsForTargets(p, langs, outs) ==
    /\ ncalls < MaxStarts
    /\ LET r == start_jobs_for_targets(Store, sqs, cfg, p, langs, outs)
       IN /\ SetStore(r.D)
          /\ sqs' = r.Q
          /\ last' = [op |-> "start_jobs_for_targets", project |-> p,
                      langs |-> langs, outs |-> outs, raised |-> r.raised,
                      created |-> r.created, job_ids |-> r.job_ids]
    /\ ncalls' = ncalls + 1
    /\ UNCHANGED <<busVars, cfg, pc>>

\* the requests that start one job
StartOne(op, r) ==
    /\ ncalls < MaxStarts
    /\ SetStore(r.D)
    /\ sqs' = r.Q
    /\ last' = [op |-> op, raised |-> r.raised, job_id |-> r.job_id]
    /\ ncalls' = ncalls + 1
    /\ UNCHANGED <<busVars, cfg, pc>>

StartJob(p, out) == StartOne("start_job", start_job(Store, sqs, cfg, p, out))

StartSegmentTtsJob(p, out) ==
    StartOne("start_segment_tts_job",
             start_segment_tts_job(Store, sqs, cfg, p, out))

StartSegmentsTtsJob(p, lang, out) ==
    StartOne("start_segments_tts_job",
             start_segments_tts_job(Store, sqs, cfg, p, lang, out))

FinishVoiceSampleUpload(v, out) ==
    /\ v \notin DOMAIN voice_samples
    /\ StartOne("finish_voice_sample_upload",
                finish_voice_sample_upload(Store, sqs, cfg, v, out))

(***************************************************************************)
(* Specification of the gateway: job-creation requests on a store without  *)
(* jobs, under each configuration of the queue.                            *)
(***************************************************************************)
Configs ==
    {DefaultCfg,
     [DefaultCfg EXCEPT !.group_id = "jobs"],
     [DefaultCfg EXCEPT !.fifo = FALSE],
     [DefaultCfg EXCEPT !.queue_url = FALSE],
     [DefaultCfg EXCEPT !.queue_url = FALSE, !.dev = TRUE]}

InitGateway ==
    /\ InitBusVars
    /\ jobs = EmptyJobs
    /\ projects = [p \in Projects |-> CreatedProject]
    /\ targets = CreatedTargets
    /\ segments = <<>> /\ translations = <<>> /\ assets = <<>>
    /\ voice_samples = [v \in {"vs1"} |->
                          [audio_sample_url |-> <<>>, prompt_text |-> None]]
    /\ next_oid = 4
    /\ sqs = <<>>
    /\ cfg \in Configs
    /\ last = NoCall /\ ncalls = 0 /\ pc = <<>>

FanOutLangs == <<"en", "ko", "ja">>

NextGateway ==
    \/ \E outs \in [DOMAIN FanOutLangs -> Outcomes] :
           StartJobsForTargets("p1", FanOutLangs, outs)
    \/ \E out \in Outcomes : StartJob("p1", out)
    \/ \E out \in Outcomes : StartSegmentTtsJob("p1", out)
    \/ \E out \in Outcomes : StartSegmentsTtsJob("p1", "ko", out)
    \/ \E out \in Outcomes : FinishVoiceSampleUpload("vs2", out)

SpecGateway == InitGateway /\ [][NextGateway]_vars

(***************************************************************************)
(* Specification of the callback handler: a bounded number of worker       *)
(* callbacks, each handled to completion, on the jobs of two projects.     *)
(***************************************************************************)
TableStages ==
    {"starting", "asr_started", "asr_completed", "translation_started",
     "translation_completed", "tts_started", "tts_completed",
     "segment_tts_completed", "mux_started", "done", "failed"}

OtherStages == {"downloaded", "stt_completed", "segment_tts_failed"}

\* the job status a worker reports with a stage
StatusOf(stage) ==
    IF stage = "done" THEN "done" ELSE IF stage = "failed" THEN "failed"
    ELSE "in_progress"

\* a callback {status, result_key?, metadata: {stage, target_lang, ...md}}
Callback(stage, lang, md) ==
    [status |-> StatusOf(stage),
     result_key |-> IF stage = "done" THEN "out.mp4" ELSE None,
     error |-> IF stage = "failed" THEN "boom" ELSE None,
     has_meta |-> TRUE,
     md |-> [md EXCEPT !.stage = stage, !.target_lang = lang]]

\* legacy inline segment {seg_idx, speaker, start, end, prompt_text, audio_file}
LegacySeg(idx, text, audio) ==
    [Seg0 EXCEPT !.seg_idx = idx, !.speaker = "S0", !.start = I(0),
                 !.prompt_text = text, !.audio_file = audio]

\* segment as produced by parse_segments_from_metadata
NewSeg(idx) ==
    [Seg0 EXCEPT !.segment_index = idx, !.speaker_tag = "SPEAKER_00",
                 !.start = I(0)]

\* segment result of a segment_tts job {index, audio_key}
TtsSeg(idx, key) == [Seg0 EXCEPT !.index = idx, !.audio_key = key]

PlainCallbacks ==
    {Callback(st, "ko", Md0) : st \in TableStages \cup OtherStages}
    \cup {Callback(st, l, Md0) :
             st \in {"starting", "done", "downloaded"}, l \in {None, "ja"}}
    \cup {[status |-> "in_progress", result_key |-> None, error |-> None,
           has_meta |-> FALSE, md |-> Md0],
          [status |-> "done", result_key |-> "out.mp4", error |-> None,
           has_meta |-> TRUE, md |-> [Md0 EXCEPT !.voice_sample_id = "vs1"]],
          Callback("tts_completed", "en", [Md0 EXCEPT !.speaker_voices = "v0"]),
          Callback("segment_tts_completed", "en",
                   [Md0 EXCEPT !.segments = <<TtsSeg(I(0), "n.wav")>>,
                               !.segment_id = S(5)]),
          Callback("tts_completed", "ko",
                   [Md0 EXCEPT !.segments = <<LegacySeg(I(0), "Hi", "k")>>]),
          Callback("starting", None, [Md0 EXCEPT !.language_code = "ko"]),
          Callback("starting", "ko", [Md0 EXCEPT !.language_code = "en"]),
          Callback("segment_tts_failed", "ko",
                   [Md0 EXCEPT !.segment_id = S(5), !.error = "tts error"]),
          [status |-> "done", result_key |-> "vs.wav", error |-> None,
           has_meta |-> TRUE,
           md |-> [Md0 EXCEPT !.stage = "downloaded", !.target_lang = "ko",
                              !.voice_sample_id = "vs1",
                              !.segment_assets_prefix = "pre/"]]}

RichCallbacks ==
    {Callback("done", "ko", [Md0 EXCEPT !.segments = sg]) :
        sg \in {<<LegacySeg(I(0), "Hi", "k")>>,
                <<LegacySeg(Bad, "Hi", "k")>>,
                <<LegacySeg(S(0), "Hi", None), LegacySeg(I(1), "Yo", "k1")>>}}
    \cup {Callback("done", "ko", [Md0 EXCEPT !.metadata_key = "m.json",
                                              !.speaker_refs = "v2",
                                              !.translated_texts = <<"T9">>,
                                              !.segments = <<LegacySeg(I(0), "Hi", "k")>>]),
          Callback("done", "ko", [Md0 EXCEPT !.metadata_key = "m.json"]),
          Callback("asr_completed", "ko", [Md0 EXCEPT !.audio_key = "a.wav",
                                                       !.vocals_key = "v.wav"]),
          Callback("tts_completed", "ko", [Md0 EXCEPT !.speaker_voices = "v1"]),
          Callback("segment_tts_completed", "ko",
                   [Md0 EXCEPT !.segments = <<TtsSeg(I(0), "n.wav")>>,
                               !.segment_id = S(4)]),
          Callback("segment_tts_completed", "ko",
                   [Md0 EXCEPT !.segments = <<TtsSeg(I(0), "n.wav")>>])}

\* collaborator outcomes tried with the rich callbacks
CallbackEnvs ==
    {Env0,
     [Env0 EXCEPT !.lookup_fails = TRUE],
     [Env0 EXCEPT !.s3_ok = FALSE, !.asset_fails = TRUE, !.project_fails = TRUE,
                  !.duration = "raise"],
     [Env0 EXCEPT !.s3_segments = <<NewSeg(I(0)), NewSeg(I(1))>>,
                  !.s3_translations = <<"T0", "T1">>]}

NextCallback ==
    \/ \E pl \in PlainCallbacks : SetJobStatus(1, pl, Env0)
    \/ \E pl \in {c \in PlainCallbacks : c.md.target_lang # "ja"} :
           SetJobStatus(3, pl, Env0)
    \/ \E pl \in RichCallbacks, env \in CallbackEnvs : SetJobStatus(1, pl, env)
    \/ \E pl \in {c \in PlainCallbacks : c.md.target_lang = None} :
           SetJobStatus(1, pl, [Env0 EXCEPT !.targets_fail = TRUE])
    \/ SetJobStatus(2, Callback("starting", None, Md0), Env0)

SpecCallback == Init /\ [][NextCallback]_vars

(***************************************************************************)
(* Specification of the reconciler: consecutive calls of                   *)
(* check_and_create_segments on one project.                               *)
(***************************************************************************)
MaxReconciles == 3      \* reconcile calls in one behaviour

\* one call of check_and_create_segments, run to completion
Reconcile(p, segs, lang, texts, env) ==
    /\ ncalls < MaxReconciles
    /\ LET r == check_and_create_segments(Store, p, segs, lang, texts, env)
           args == <<p, segs, lang, texts>>
       IN /\ segments' = r.D.segments
          /\ translations' = r.D.translations
          /\ next_oid' = r.D.next_oid
          /\ last' = [op |-> "reconcile", args |-> args, clean |-> env = Env0,
                      env |-> env,
                      raised |-> r.raised, ret |-> r.ret,
                      repeat |-> last.op = "reconcile" /\ last.args = args
                                 /\ last.clean /\ env = Env0]
    /\ ncalls' = ncalls + 1
    /\ UNCHANGED <<jobs, projects, targets, assets, voice_samples, busVars,
                   sqs, cfg, pc>>

\* <<segments, translated_texts>> of a call: legacy elements carry their
\* text, elements parsed from the metadata document come with a text list
ReconcileInputs ==
    {<<<<LegacySeg(I(0), "Hi", "k0"), LegacySeg(S(1), "Yo", None)>>, <<>>>>,
     <<<<NewSeg(I(0)), NewSeg(I(1))>>, <<"T0", "T1">>>>,
     <<<<NewSeg(I(0)), NewSeg(I(1))>>, <<"T0">>>>,
     <<<<LegacySeg(I(0), "Hi", "k0"), LegacySeg(I(0), "Yo", "k1")>>, <<>>>>,
     <<<<LegacySeg(I(0), "Hi", "k0"), LegacySeg(Bad, "Yo", None)>>, <<>>>>}

ReconcileEnvs ==
    {Env0, [Env0 EXCEPT !.lookup_fails = TRUE],
     [Env0 EXCEPT !.insert_fails = TRUE], [Env0 EXCEPT !.upsert_fails = TRUE]}

\* the segment_tts_completed branch of a callback between two reconcile
\* calls: the audio URL of one translation is patched and broadcast
PatchAudio(p, lang, md) ==
    /\ ncalls < MaxReconciles
    /\ \E r \in {segment_tts_completed(Store, Bus, p, lang, md, Env0)} :
          /\ translations' = r.D.translations
          /\ queues' = r.B.q
          /\ published' = r.B.pub
    /\ last' = [op |-> "segment_tts_completed", args |-> <<p, lang, md>>]
    /\ ncalls' = ncalls + 1
    /\ UNCHANGED <<jobs, projects, targets, assets, voice_samples, segments,
                   next_oid, project_channels, audio_channels, subs, sqs,
                   cfg, pc>>

\* the metadata of a segment_tts_completed callback for one segment
PatchInputs ==
    {[Md0 EXCEPT !.segments = <<TtsSeg(I(0), "n.wav")>>, !.segment_id = S(k)] :
        k \in {4, 5}}

NextReconcile ==
    \/ \E in \in ReconcileInputs, lang \in {"en", "ko"}, env \in ReconcileEnvs :
           Reconcile("p1", in[1], lang, in[2], env)
    \/ \E md \in PatchInputs, lang \in {"en", "ko"} : PatchAudio("p1", lang, md)

SpecReconcile == Init /\ [][NextReconcile]_vars

(***************************************************************************)
(* Specification of overlapping done callbacks.  The handler is a          *)
(* coroutine: between two awaits of the store another handler may run.     *)
(* Each handler goes begin -> lookup -> insert -> translate -> finish.     *)
(***************************************************************************)
MaxHandlers == 2        \* done callbacks in flight in one behaviour

Handlers == 1..MaxHandlers

\* the next handler to start: handlers are interchangeable
FreshHandler(h) == h \notin DOMAIN pc /\ \A g \in 1..(h - 1) : g \in DOMAIN pc

At(h, where) == h \in DOMAIN pc /\ pc[h].at = where

\* the handler's position after the asset was written
AtLookup(j, p, lang, pl) ==
    [at |-> "lookup", job |-> j, project |-> p, lang |-> lang,
     segs |-> pl.md.segments, existing |-> [failed |-> FALSE, rows |-> <<>>],
     map |-> <<>>, created |-> FALSE, voices |-> ReportedVoices(pl.md),
     read |-> NoVoices, key |-> None]

\* lines 380-476 and 729-745: the job write, then for reported voices the
\* read of the project's voice map; without voices the handler goes on to
\* the asset of process_md_completion
DoneBegin(h, j, pl) ==
    /\ FreshHandler(h)
    \* a worker reports a job again only after the previous report returned
    /\ \A g \in DOMAIN pc : pc[g].job = j => pc[g].at \in {"returned", "raised"}
    /\ pl.md.stage = "done" /\ pl.md.metadata_key = None /\ pl.md.segments # <<>>
    /\ LET u == update_job_status(Store, j, pl)
           result == u.D.jobs[j]
           p == result.project_id
           lang == pl.md.target_lang
           D1 == UpdateVoiceSample(u.D, pl, result)
           key == IF pl.md.result_key # None THEN pl.md.result_key
                  ELSE result.result_key
           D3 == IF key # None
                 THEN create_asset_from_result(D1, p, lang, key, FALSE) ELSE D1
       IN /\ lang # None
          /\ IF ReportedVoices(pl.md) # None
             THEN /\ SetStore(D1)
                  /\ pc' = (h :> [AtLookup(j, p, lang, pl) EXCEPT
                                    !.at = "voices", !.key = key,
                                    !.read = D1.projects[p].default_speaker_voices])
                           @@ pc
             ELSE /\ SetStore(D3)
                  /\ pc' = (h :> AtLookup(j, p, lang, pl)) @@ pc
    /\ UNCHANGED <<busVars, sqs, cfg, last, ncalls>>

\* lines 748-777 and 319-320: the write of the merged voice map, then the
\* asset of process_md_completion
DoneMerge(h) ==
    /\ At(h, "voices")
    /\ LET D2 == WriteVoices(Store, pc[h].project, pc[h].lang, pc[h].voices,
                             pc[h].read, FALSE)
           D3 == IF pc[h].key # None
                 THEN create_asset_from_result(D2, pc[h].project, pc[h].lang,
                                               pc[h].key, FALSE)
                 ELSE D2
       IN SetStore(D3)
    /\ pc' = [pc EXCEPT ![h].at = "lookup"]
    /\ UNCHANGED <<busVars, sqs, cfg, last, ncalls>>

\* await segment_service.get_segments_by_project(project_id)
DoneLookup(h, lookup_fails) ==
    /\ At(h, "lookup")
    /\ pc' = [pc EXCEPT ![h].at = "insert",
                        ![h].existing =
                            LookupExisting(Store, pc[h].project, lookup_fails)]
    /\ UNCHANGED <<storeVars, busVars, sqs, cfg, last, ncalls>>

\* await db["project_segments"].insert_many(segments_to_create)
DoneInsert(h) ==
    /\ At(h, "insert")
    /\ LET c == CreateSegments(Store, pc[h].project, pc[h].segs,
                               pc[h].existing, FALSE)
       IN /\ SetStore(c.D)
          /\ pc' = [pc EXCEPT ![h].at = IF c.end = "next" THEN "translate"
                                        ELSE IF c.end = "raise" THEN "raised"
                                        ELSE "finish",
                              ![h].map = c.map, ![h].created = c.created]
    /\ UNCHANGED <<busVars, sqs, cfg, last, ncalls>>

\* the upserts of the handler's translations
DoneTranslate(h) ==
    /\ At(h, "translate")
    /\ LET w == WriteTranslations(Store, pc[h].segs, pc[h].lang, <<>>,
                                  pc[h].map, pc[h].created, pc[h].existing,
                                  FALSE)
       IN /\ SetStore(w.D)
          /\ pc' = [pc EXCEPT ![h].at = IF w.raised THEN "raised" ELSE "finish"]
    /\ UNCHANGED <<busVars, sqs, cfg, last, ncalls>>

\* lines 794-814: the target write, the broadcast, the response
DoneFinish(h) ==
    /\ At(h, "finish")
    /\ LET r == UpdateTarget(Store, Bus, pc[h].project, pc[h].lang,
                             stage_progress("done"))
       IN /\ SetStore(r.D)
          /\ queues' = r.B.q /\ published' = r.B.pub
    /\ pc' = [pc EXCEPT ![h].at = "returned"]
    /\ UNCHANGED <<project_channels, audio_channels, subs, sqs, cfg, last, ncalls>>

\* done callbacks of the jobs of p1's two target languages
RaceCallbacks ==
    {Callback("done", l, [Md0 EXCEPT !.segments = sg]) :
        l \in {"en", "ko"},
        sg \in {<<LegacySeg(I(0), "Hi", "k0"), LegacySeg(I(1), "Yo", "k1")>>}}
    \cup {Callback("done", "en",
                   [Md0 EXCEPT !.segments = <<LegacySeg(I(0), "Hi", None)>>,
                               !.speaker_voices = "v0"]),
          Callback("done", "ko",
                   [Md0 EXCEPT !.segments = <<LegacySeg(I(0), "Hi", None)>>,
                               !.speaker_refs = "v1"])}

JobOf(pl) == IF pl.md.target_lang = "en" THEN 1 ELSE 2

NextRace ==
    \/ \E h \in Handlers, pl \in RaceCallbacks : DoneBegin(h, JobOf(pl), pl)
    \/ \E h \in Handlers : DoneMerge(h)
    \/ \E h \in Handlers, f \in BOOLEAN : DoneLookup(h, f)
    \/ \E h \in Handlers : DoneInsert(h)
    \/ \E h \in Handlers : DoneTranslate(h)
    \/ \E h \in Handlers : DoneFinish(h)

SpecRace == Init /\ [][NextRace]_vars

(***************************************************************************)
(* Specification of the event bus alone: subscribe, disconnect, dispatch.  *)
(***************************************************************************)
BusLangs == {"en", "ko"}
BusPairs == {<<"processing", 1>>, <<"completed", 100>>}

NextBus ==
    \/ \E s \in Subs, p \in Projects : pipeline_events(s, p)
    \/ \E s \in Subs : pipeline_events_close(s)
    \/ \E s \in Subs, l \in BusLangs : audio_events(s, "p1", l)
    \/ \E s \in Subs : audio_events_close(s)
    \/ \E p \in Projects, sp \in BusPairs :
           DispatchTargetUpdate(p, "en", sp[1], sp[2])
    \/ \E l \in BusLangs : DispatchAudioCompleted("p1", l, 1, "a.wav")

SpecBus == Init /\ [][NextBus]_vars


(***************************************************************************)
(* Claims about the callback handler.                                      *)
(***************************************************************************)
\* the stage table as documented
DocumentedPair ==
    [starting |-> <<"processing", 1>>, asr_started |-> <<"processing", 10>>,
     asr_completed |-> <<"processing", 20>>,
     translation_started |-> <<"processing", 21>>,
     translation_completed |-> <<"processing", 35>>,
     tts_started |-> <<"processing", 36>>, tts_completed |-> <<"completed", 70>>,
     segment_tts_completed |-> <<"completed", 70>>,
     mux_started |-> <<"processing", 71>>, done |-> <<"completed", 100>>,
     failed |-> <<"failed", 0>>]

\* the state follows a callback that carried a stage
StagedCall == last.op = "set_job_status" /\ last.payload.has_meta
              /\ last.payload.md.stage # None

\* C1: after a callback carrying a stage of the table, for a project whose
\* target for the resolved language exists, that target holds exactly the
\* documented (status, progress) pair.
C1_StageTable ==
    (StagedCall /\ last.payload.md.stage \in TableStages
                /\ last.language_code # None
                /\ <<jobs[last.job].project_id, last.language_code>>
                       \in DOMAIN targets)
    => LET t == targets[<<jobs[last.job].project_id, last.language_code>>]
           d == DocumentedPair[last.payload.md.stage]
       IN t.status = d[1] /\ t.progress = d[2]

\* a step that handles a callback whose stage is not in the table
UnknownStageStep ==
    /\ last'.op = "set_job_status" /\ ncalls' = ncalls + 1
    /\ last'.payload.has_meta
    /\ last'.payload.md.stage \notin TableStages \cup {None}

\* C2 (as stated): a callback whose stage is not in the table changes no
\* target, publishes no target_update, and changes nothing but the Job.
C2_OnlyJobChanges ==
    [][UnknownStageStep =>
          /\ targets' = targets /\ published' = published /\ queues' = queues
          /\ projects' = projects /\ voice_samples' = voice_samples
          /\ segments' = segments /\ translations' = translations
          /\ assets' = assets]_vars

\* C2 (amended): a callback whose stage is not in the table changes no
\* target and publishes nothing; besides the Job it sets the project's
\* status to the stage name (and segment_assets_prefix when given), and a
\* done callback naming a voice sample patches that sample; segments,
\* translations and assets are untouched.
C2_UnknownStageFrame ==
    [][UnknownStageStep =>
          LET pl == last'.payload
              j == last'.job
              p == jobs[j].project_id
          IN /\ targets' = targets /\ published' = published /\ queues' = queues
             /\ segments' = segments /\ translations' = translations
             /\ assets' = assets
             /\ \A i \in DOMAIN jobs : i # j => jobs'[i] = jobs[i]
             /\ jobs'[j].status = pl.status
             /\ \A q \in DOMAIN projects :
                  /\ q # p => projects'[q] = projects[q]
                  /\ \A f \in DOMAIN projects[q] :
                        f \notin {"status", "segment_assets_prefix"}
                        => projects'[q][f] = projects[q][f]
             /\ projects'[p].status = pl.md.stage
             /\ (pl.md.segment_assets_prefix # None
                   => projects'[p].segment_assets_prefix = pl.md.segment_assets_prefix)
             /\ (pl.md.segment_assets_prefix = None
                   => projects'[p].segment_assets_prefix = projects[p].segment_assets_prefix)
             /\ (~(pl.status = "done" /\ pl.md.voice_sample_id # None)
                   => voice_samples' = voice_samples)]_vars

\* C2 witness: an unknown stage was handled for a project whose target had
\* already left its initial state; the project now carries the stage name.
C2_Witness ==
    /\ StagedCall /\ last.payload.md.stage = "segment_tts_failed"
    /\ last.job = 1
    /\ targets[<<"p1", "ko">>] = [status |-> "completed", progress |-> 70]
    /\ projects["p1"].status = "segment_tts_failed"

\* C3: every callback on an existing Job is answered with the updated Job;
\* the handler never raises.
C3_NeverRaises == last.op = "set_job_status" => last.response = "job"

(***************************************************************************)
(* Claims about the reconciler.                                            *)
(***************************************************************************)
TranslationKeys(trs) ==
    {<<trs[i].segment_id, trs[i].language_code>> : i \in DOMAIN trs}

\* the call just made repeats the previous call's arguments, and the store
\* answered every operation of both calls
RepeatedCall == last'.op = "reconcile" /\ ncalls' = ncalls + 1 /\ last'.repeat

\* C4: a second call of check_and_create_segments with the arguments of the
\* call before it creates no ProjectSegment, adds no SegmentTranslation, and
\* leaves exactly one SegmentTranslation per (segment_id, language_code).
C4_ReconcileIdempotent ==
    [][RepeatedCall =>
          /\ segments' = segments
          /\ Len(translations') = Len(translations)
          /\ TranslationKeys(translations') = TranslationKeys(translations)
          /\ Cardinality(TranslationKeys(translations')) = Len(translations')
          /\ last'.raised = last.raised]_vars

\* C4 witness: the second of two identical calls returned, and the project
\* has its two segments with one translation each.
C4_Witness ==
    /\ last.op = "reconcile" /\ last.repeat /\ last.ret
    /\ Len(segments) = 2 /\ Len(translations) = 2

\* C10: after any interleaving of done callbacks for the target languages
\* of one project, the project has at most one ProjectSegment per
\* segment_index.
C10_OneSegmentPerIndex ==
    \A i, k \in DOMAIN segments :
        (segments[i].project_id = segments[k].project_id
         /\ segments[i].segment_index = segments[k].segment_index) => i = k

(***************************************************************************)
(* Claims about the gateway.                                               *)
(***************************************************************************)
\* the job of a job-creation call has a message on the queue
Published(j) == \E k \in DOMAIN sqs : sqs[k].job_id = j

\* the languages of the last fan-out whose job was created and enqueued
FannedOut == {i \in DOMAIN last.outs : last.outs[i] = "ok"}

\* C6: when start_jobs_for_targets meets only enqueue failures, on a
\* configured queue, it returns exactly the languages whose enqueue
\* succeeded, their jobs stay queued, the job of every language whose
\* enqueue failed is failed, and the call raises only when every enqueue
\* failed.
C6_PartialFanOut ==
    (/\ last.op = "start_jobs_for_targets" /\ cfg.queue_url
     /\ \A i \in DOMAIN last.outs : last.outs[i] \in {"ok", "enqueue_fails"})
    => /\ last.raised <=> FannedOut = {}
       /\ Len(last.job_ids) = Len(last.langs)
       /\ Len(last.created) = Cardinality(FannedOut)
       /\ \A i \in FannedOut :
             \E k \in DOMAIN last.created :
                 last.created[k] = [job_id |-> last.job_ids[i],
                                    target_lang |-> last.langs[i]]
       /\ \A i \in DOMAIN last.job_ids :
             jobs[last.job_ids[i]].status =
                 IF i \in FannedOut THEN "queued" ELSE "failed"

\* C6 witness: of three languages only the second one's enqueue failed; two
\* entries were returned and the call did not raise.
C6_Witness ==
    /\ last.op = "start_jobs_for_targets" /\ cfg.queue_url
    /\ last.outs = <<"ok", "enqueue_fails", "ok">>
    /\ ~last.raised /\ Len(last.created) = 2
    /\ jobs[last.job_ids[2]].status = "failed"

\* C7: start_jobs_for_targets raises if and only if none of its languages
\* has a job on the queue, and it reaches every language whatever step
\* failed for another one.
C7_RaisesIffNoneEnqueued ==
    last.op = "start_jobs_for_targets"
    => /\ last.raised <=> ~\E i \in DOMAIN last.job_ids : Published(last.job_ids[i])
       /\ Len(last.job_ids) = Len(last.langs)

\* C8: a job whose message was never published has status failed.
C8_UnpublishedJobFailed ==
    \A j \in DOMAIN jobs : ~Published(j) => jobs[j].status = "failed"

(***************************************************************************)
(* Claims about the event bus.                                             *)
(***************************************************************************)
\* the events dispatched to s's key while s was attached, in dispatch order
DispatchedWhileAttached(s) ==
    LET Attached(e) == s \in e.live
        sel == SelectSeq(published, Attached)
    IN [i \in 1..Len(sel) |-> sel[i].event]

\* C5: under any interleaving of subscribe, dispatch and disconnect, the
\* events put on a subscriber's queue are exactly the events dispatched to
\* its channel key after it subscribed and before it disconnected.
C5_FanOutWindow == \A s \in Subs : queues[s] = DispatchedWhileAttached(s)

\* C5 witness: two subscribers of one key, one of which disconnected between
\* two dispatches and so holds fewer events than the other.
C5_Witness ==
    \E s, t \in Subs :
        /\ s # t
        /\ subs[s].scope = subs[t].scope /\ subs[s].scope # None
        /\ subs[s].key = subs[t].key
        /\ subs[t].state = "closed"
        /\ Len(queues[s]) = 2 /\ Len(queues[t]) = 1

\* C9: in both channel registries every entry holds a non-empty subscriber
\* set whose queues all belong to still-connected subscribers of that key.
C9_RegistryCollected ==
    /\ \A k \in DOMAIN project_channels :
          /\ project_channels[k] # {}
          /\ project_channels[k] \subseteq LiveOn("project", k)
    /\ \A k \in DOMAIN audio_channels :
          /\ audio_channels[k] # {}
          /\ audio_channels[k] \subseteq LiveOn("audio", k)

(***************************************************************************)
(* Claims about targets, voices and segment resolution.                    *)
(***************************************************************************)
\* C11: a target whose status is completed or failed never returns to
\* processing or pending, whatever callbacks follow.
C11_TargetNeverGoesBack ==
    [][\A k \in DOMAIN targets :
          targets[k].status \in {"completed", "failed"}
          => targets'[k].status \in {"completed", "failed"}]_vars

\* a step that handles a tts_completed callback carrying speaker_voices for
\* a resolved language, the project write being accepted by the store
TtsCompletedStep ==
    /\ last'.op = "set_job_status" /\ ncalls' = ncalls + 1
    /\ last'.payload.has_meta
    /\ last'.payload.md.stage = "tts_completed"
    /\ last'.payload.md.speaker_voices # None
    /\ last'.language_code # None
    /\ ~last'.env.project_fails

\* C12: a tts_completed callback for language L carrying speaker_voices
\* sets the project's default-voice entry of L to them and leaves the
\* entry of every other language as it was.
C12_VoicesMerged ==
    [][TtsCompletedStep =>
          LET p == jobs[last'.job].project_id
              L == last'.language_code
          IN \A l \in Langs :
                projects'[p].default_speaker_voices[l] =
                    IF l = L THEN last'.payload.md.speaker_voices
                    ELSE projects[p].default_speaker_voices[l]]_vars

\* the audio-failed event a segment_tts_failed callback is to publish
AudioFailedEvent(p, l, seg, msg) ==
    [type |-> "audio-failed", project_id |-> p, language_code |-> l,
     status |-> "failed", segment |-> seg, error |-> msg]

\* a step that handles a segment_tts_failed callback whose metadata names an
\* existing segment of the project
SegmentTtsFailedStep ==
    /\ last'.op = "set_job_status" /\ ncalls' = ncalls + 1
    /\ last'.payload.has_meta
    /\ last'.payload.md.stage = "segment_tts_failed"
    /\ last'.language_code # None
    /\ last'.payload.md.segment_id.t = "str"
    /\ \E i \in DOMAIN segments :
          /\ segments[i]._id = last'.payload.md.segment_id.n
          /\ segments[i].project_id.v = jobs[last'.job].project_id

\* C13: a segment_tts_failed callback whose segment id can be resolved
\* publishes exactly one audio-failed event on the audio channel of
\* (project_id, language_code), with the segment id and the error message
\* of metadata.error, or a default message when there is none.
C13_AudioFailedPublished ==
    [][SegmentTtsFailedStep =>
          LET md == last'.payload.md
              p == jobs[last'.job].project_id
              L == last'.language_code
              msg == IF md.error # None THEN md.error ELSE "TTS generation failed"
          IN /\ Len(published') = Len(published) + 1
             /\ published'[Len(published')].scope = "audio"
             /\ published'[Len(published')].key = ChannelKey(p, L)
             /\ published'[Len(published')].event =
                    AudioFailedEvent(p, L, md.segment_id.n, msg)]_vars

\* segment_tts_completed metadata that names the segment explicitly / only by
\* the index of its first segment result
ExplicitMd(s, i) == [Md0 EXCEPT !.segment_id = S(s), !.segments = <<TtsSeg(i, "a.wav")>>]
IndexOnlyMd(i) == [Md0 EXCEPT !.segments = <<TtsSeg(i, "a.wav")>>]

\* C14: for every stored ProjectSegment of project P with segment_index i
\* and id s, segment identity resolution gives s both when the metadata
\* carries segment_id = s and when it carries only segments[0].index = i.
C14_SameIdEitherWay ==
    \A k \in DOMAIN segments :
       LET p == segments[k].project_id.v
           i == segments[k].segment_index
           s == segments[k]._id
       IN /\ ResolveSegmentId(Store, p, ExplicitMd(s, i)) = S(s)
          /\ ResolveSegmentId(Store, p, IndexOnlyMd(i)) = S(s)


(***************************************************************************)
(* Claims about the Job document                                           *)
(***************************************************************************)

\* a step that handles one worker callback
CallbackStep == last'.op = "set_job_status" /\ ncalls' = ncalls + 1

\* the Job document after the status write of payload pl
JobWritten(job, pl) ==
    [job EXCEPT !.status = pl.status,
                !.history = Append(@, pl.status),
                !.result_key = IF pl.result_key # None THEN pl.result_key ELSE @,
                !.error = IF pl.error # None THEN pl.error ELSE @]

\* C15: every handled callback performs the Job status write (status,
\* result_key, error, one history entry), also when the metadata is absent,
\* the stage is unknown or the later side effects fail or abort the handler;
\* so no Project, ProjectTarget, segment, translation or event effect of a
\* callback is ever visible without the Job write that precedes it.
C15_JobWriteFirst ==
    [][CallbackStep =>
          /\ jobs'[last'.job] = JobWritten(jobs[last'.job], last'.payload)
          /\ \A k \in DOMAIN jobs : k # last'.job => jobs'[k] = jobs[k]]_vars

\* a callback whose handler aborted after the Job write
C15_Witness ==
    /\ last.op = "set_job_status"
    /\ last.response = "error"
    /\ jobs[last.job].status = last.payload.status
    /\ Len(jobs[last.job].history) >= 2


\* C16: a Job is terminal at done/failed: once its status is done or
\* failed, no later status update changes the status to a different value.
C16_JobTerminal ==
    [][\A k \in DOMAIN jobs :
          jobs[k].status \in {"done", "failed"} => jobs'[k].status = jobs[k].status]_vars


\* C17: a Job's history is append-only: it starts with the queued entry of
\* creation, every status update appends exactly one entry whose status is
\* the new Job status, no step removes, reorders or modifies an entry, and
\* the last entry's status is the Job's current status.
C17_HistoryAppendOnly ==
    [][\A k \in DOMAIN jobs :
          LET h == jobs'[k].history
          IN /\ jobs[k].history[1] = "queued"
             /\ h[Len(h)] = jobs'[k].status
             /\ \/ h = jobs[k].history /\ jobs'[k].status = jobs[k].status
                \/ h = Append(jobs[k].history, jobs'[k].status)
             /\ CallbackStep /\ k = last'.job
                    => h = Append(jobs[k].history, last'.payload.status)]_vars

\* a job updated twice, to two different statuses
C17_Witness ==
    \E k \in DOMAIN jobs :
       /\ Len(jobs[k].history) = 3
       /\ jobs[k].history[2] # jobs[k].history[3]
       /\ jobs[k].status = jobs[k].history[3]


(***************************************************************************)
(* Claims about the completion of a pipeline                               *)
(***************************************************************************)

\* the segments of project p in a segment collection
SegmentsOf(segs, p) == {k \in DOMAIN segs : segs[k].project_id.v = p}

\* a step that handles a done callback with a target language and inline
\* legacy segments numbered by distinct integer seg_idx, for a project that
\* has no segments yet, with every collaborator working
DoneLegacyStep ==
    /\ CallbackStep
    /\ last'.payload.has_meta
    /\ last'.payload.md.stage = "done"
    /\ last'.payload.md.target_lang # None
    /\ last'.payload.md.metadata_key = None
    /\ last'.payload.md.segments # <<>>
    /\ \A i \in DOMAIN last'.payload.md.segments :
          /\ last'.payload.md.segments[i].speaker_tag = None
          /\ last'.payload.md.segments[i].seg_idx.t \in {"int", "str"}
          /\ \A k \in DOMAIN last'.payload.md.segments :
                IntOf(last'.payload.md.segments[k].seg_idx)
                    = IntOf(last'.payload.md.segments[i].seg_idx) => k = i
    /\ last'.env = Env0
    /\ SegmentsOf(segments, jobs[last'.job].project_id) = {}

DoneFetchFailsStep ==
    /\ CallbackStep
    /\ last'.payload.has_meta
    /\ last'.payload.md.stage = "done"
    /\ last'.payload.md.metadata_key # None
    /\ last'.language_code # None
    /\ ~last'.env.s3_ok
    /\ ~last'.env.lookup_fails /\ ~last'.env.insert_fails /\ ~last'.env.upsert_fails
    /\ SegmentsOf(segments, jobs[last'.job].project_id) = {}
    /\ \A i \in DOMAIN last'.payload.md.segments :
          last'.payload.md.segments[i].seg_idx.t \in {"int", "str"}

\* C19: when the document named by metadata.metadata_key cannot be fetched
\* or parsed, the completion reconciles the inline metadata.segments, when
\* present, without a translated_texts override, and the failure is not
\* raised; a completion with neither metadata.target_lang nor a default
\* language creates no Asset, segment or translation.
C19_FallbackToInline ==
    [][/\ DoneFetchFailsStep =>
             LET md == last'.payload.md
                 p == jobs[last'.job].project_id
                 L == last'.language_code
                 created == SegmentsOf(segments', p)
             IN /\ last'.response = "job"
                /\ Cardinality(created) = Len(md.segments)
                /\ md.segments = <<>> => translations' = translations
                /\ \A i \in DOMAIN md.segments :
                      \E k \in created, t \in DOMAIN translations' :
                         /\ segments'[k].segment_index = IntOf(md.segments[i].seg_idx)
                         /\ translations'[t].segment_id = StrOid(segments'[k]._id)
                         /\ translations'[t].language_code = L
                         /\ translations'[t].target_text = md.segments[i].prompt_text
       /\ \A pl \in RichCallbacks, env \in CallbackEnvs, p \in Projects :
             process_md_completion(Store, p, [pl.md EXCEPT !.target_lang = None],
                                   "out.mp4", None, env).D = Store]_vars

\* a done callback whose S3 document could not be fetched was answered and
\* left the inline segment with the inline text, not the override
C19_Witness ==
    /\ last.op = "set_job_status" /\ last.response = "job"
    /\ last.payload.md.stage = "done" /\ last.payload.md.metadata_key # None
    /\ last.payload.md.translated_texts # <<>>
    /\ ~last.env.s3_ok
    /\ Len(segments) = 1 /\ Len(translations) = 1
    /\ translations[1].target_text = last.payload.md.segments[1].prompt_text


(***************************************************************************)
(* Claims about the language of a callback                                 *)
(***************************************************************************)

\* the events a step added to the published ones
NewEvents == {published'[i].event : i \in (Len(published) + 1) .. Len(published')}

\* C20: outside the language-independent stages {downloaded, stt_completed}
\* a callback needs a language code: metadata.target_lang, else
\* metadata.language_code, else the project's first declared target.  The
\* resolved language is the only one whose ProjectTarget is written and
\* whose target_update is published; when none can be determined no
\* ProjectTarget changes and no target_update is published; a
\* language-independent stage is handled without a language code.
C20_LanguageResolution ==
    [][CallbackStep /\ last'.payload.has_meta /\ last'.payload.md.stage # None =>
          LET md == last'.payload.md
              p == jobs[last'.job].project_id
              indep == md.stage \in {"downloaded", "stt_completed"}
              given == IF md.target_lang # None THEN md.target_lang
                       ELSE md.language_code
              declared == IF last'.env.targets_fail THEN None
                          ELSE TargetLanguages[p][1]
              L == IF given # None THEN given
                   ELSE IF indep THEN None ELSE declared
          IN /\ \A k \in DOMAIN targets : k # <<p, L>> => targets'[k] = targets[k]
             /\ \A e \in NewEvents : e.type = "target_update" => e.language_code = L
             /\ L = None => /\ targets' = targets
                            /\ \A e \in NewEvents : e.type # "target_update"
             /\ indep /\ given = None =>
                   /\ last'.response = "job"
                   /\ projects'[p].status = md.stage
             /\ /\ L # None /\ <<p, L>> \in DOMAIN targets
                /\ md.stage \in {"starting", "asr_started", "translation_started",
                                 "tts_started", "mux_started", "failed"}
                => /\ targets'[<<p, L>>].status = stage_progress(md.stage)[1]
                   /\ \E e \in NewEvents :
                         e.type = "target_update" /\ e.language_code = L]_vars

\* a callback that named no language was applied to the first declared
\* target of its project
C20_Witness ==
    /\ last.op = "set_job_status" /\ last.response = "job"
    /\ last.payload.has_meta
    /\ last.payload.md.stage = "starting"
    /\ last.payload.md.target_lang = None /\ last.payload.md.language_code = None
    /\ ~last.env.targets_fail
    /\ last.language_code = TargetLanguages[jobs[last.job].project_id][1]
    /\ targets[<<jobs[last.job].project_id, last.language_code>>].status = "processing"
    /\ Len(published) > 0
    /\ published[Len(published)].event.language_code = last.language_code


(***************************************************************************)
(* Claims about repeated and reordered callbacks                           *)
(***************************************************************************)

\* a step that handles again the callback handled just before, with every
\* collaborator working both times
RetryStep ==
    /\ CallbackStep
    /\ last.op = "set_job_status"
    /\ last'.job = last.job
    /\ last'.payload = last.payload
    /\ last.env = Env0 /\ last'.env = Env0

\* C21: handling an identical callback a second time leaves the Job's
\* status, result and error, the Project fields, the ProjectTargets, the
\* ProjectSegments, the SegmentTranslations and the preview Assets as they
\* were after the first handling; only the Job's history grows.
C21_RetryIdempotent ==
    [][RetryStep =>
          /\ jobs' = [jobs EXCEPT ![last.job].history = Append(@, last.payload.status)]
          /\ projects' = projects
          /\ targets' = targets
          /\ segments' = segments
          /\ translations' = translations
          /\ assets' = assets]_vars


\* a step that handles a tts_completed callback with a target language and
\* inline segments that carry prompt_text and audio_file
TtsSegmentsStep ==
    /\ CallbackStep
    /\ last'.payload.has_meta
    /\ last'.payload.md.stage = "tts_completed"
    /\ last'.payload.md.target_lang # None
    /\ last'.payload.md.segments # <<>>
    /\ \A i \in DOMAIN last'.payload.md.segments :
          /\ last'.payload.md.segments[i].prompt_text # None
          /\ last'.payload.md.segments[i].audio_file # None
          /\ last'.payload.md.segments[i].seg_idx.t = "int"
    /\ last'.env = Env0

\* C22: a tts_completed callback with target_lang and inline segments
\* leaves one SegmentTranslation of that language per reported segment, and
\* ProjectSegments for the project when it had none.
C22_TtsCompletedTranslations ==
    [][TtsSegmentsStep =>
          LET md == last'.payload.md
              p == jobs[last'.job].project_id
          IN /\ SegmentsOf(segments', p) # {}
             /\ \A i \in DOMAIN md.segments :
                   \E k \in SegmentsOf(segments', p), t \in DOMAIN translations' :
                      /\ segments'[k].segment_index = IntOf(md.segments[i].seg_idx)
                      /\ translations'[t].segment_id = StrOid(segments'[k]._id)
                      /\ translations'[t].language_code = md.target_lang
                      /\ translations'[t].target_text = md.segments[i].prompt_text]_vars


(***************************************************************************)
(* Claims about the messages of the job queue                              *)
(***************************************************************************)

\* C23: on a FIFO queue every message published by enqueue_job has group_id
\* equal to the Job's project_id and deduplication_id equal to the Job's
\* job_id, so Jobs of different projects never share a message group and
\* distinct Jobs never share a deduplication id.
C23_GroupIsProject ==
    cfg.fifo =>
       /\ \A i \in DOMAIN sqs :
             /\ sqs[i].group_id = sqs[i].project_id
             /\ sqs[i].dedup_id = sqs[i].job_id
       /\ \A i, k \in DOMAIN sqs :
             sqs[i].project_id # sqs[k].project_id => sqs[i].group_id # sqs[k].group_id

\* C23 as amended: on a FIFO queue the group id is the configured
\* JOB_QUEUE_MESSAGE_GROUP_ID when there is one and the Job's project_id
\* otherwise, and the deduplication id is the Job's job_id; distinct Jobs
\* never share a deduplication id, and without a configured group id Jobs of
\* different projects never share a message group.
C23_GroupConfiguredOrProject ==
    cfg.fifo =>
       /\ \A i \in DOMAIN sqs :
             /\ sqs[i].group_id = IF cfg.group_id # None THEN cfg.group_id
                                  ELSE jobs[sqs[i].job_id].project_id
             /\ sqs[i].dedup_id = sqs[i].job_id
       /\ \A i, k \in DOMAIN sqs :
             /\ i # k => sqs[i].dedup_id # sqs[k].dedup_id
             /\ cfg.group_id = None /\ sqs[i].project_id # sqs[k].project_id
                   => sqs[i].group_id # sqs[k].group_id

\* messages of Jobs of two projects on a FIFO queue with a configured group
C23_Witness ==
    /\ cfg.fifo /\ cfg.group_id # None
    /\ \E i, k \in DOMAIN sqs :
          /\ sqs[i].project_id # sqs[k].project_id
          /\ sqs[i].group_id = sqs[k].group_id
          /\ sqs[i].dedup_id # sqs[k].dedup_id


(***************************************************************************)
(* Claims about concurrent done callbacks                                  *)
(***************************************************************************)

\* the handlers that reported voices and have returned
VoicedReturned == {h \in DOMAIN pc : pc[h].at = "returned" /\ pc[h].voices # None}

\* C24: after done callbacks carrying speaker_voices or speaker_refs for
\* two languages of one project have both completed, in any interleaving,
\* the project's default-voice map has the entry of each of them.
C24_NoLostVoices ==
    \A h, g \in VoicedReturned :
       /\ pc[h].project = pc[g].project /\ pc[h].lang # pc[g].lang
       => /\ projects[pc[h].project].default_speaker_voices[pc[h].lang] = pc[h].voices
          /\ projects[pc[g].project].default_speaker_voices[pc[g].lang] = pc[g].voices


\* a step that handles, and answers, a callback of a table stage whose
\* progress is below the progress the target has
StaleStageStep ==
    /\ CallbackStep
    /\ last'.response = "job"
    /\ last'.payload.has_meta
    /\ last'.payload.md.stage \in TableStages
    /\ last'.language_code # None
    /\ <<jobs[last'.job].project_id, last'.language_code>> \in DOMAIN targets
    /\ stage_progress(last'.payload.md.stage)[2]
          < targets[<<jobs[last'.job].project_id, last'.language_code>>].progress

\* C25: target progress is written per stage with no monotonicity check: a
\* callback whose stage has a lower table value than the target's progress
\* (a duplicate, a stale earlier stage, or segment_tts_completed after done)
\* rewrites the target to that lower value and reports it.
C25_NoMonotonicityCheck ==
    [][StaleStageStep =>
          LET k == <<jobs[last'.job].project_id, last'.language_code>>
              tu == stage_progress(last'.payload.md.stage)
          IN /\ targets'[k] = [status |-> tu[1], progress |-> tu[2]]
             /\ targets'[k].progress < targets[k].progress
             /\ \E e \in NewEvents :
                   /\ e.type = "target_update"
                   /\ e.language_code = last'.language_code
                   /\ e.progress = tu[2]]_vars

\* the progress reported for one (project, language) went from 100 to less
C25_Witness ==
    \E i, k \in DOMAIN published :
       /\ i < k
       /\ published[i].event.type = "target_update"
       /\ published[k].event.type = "target_update"
       /\ published[i].event.project_id = published[k].event.project_id
       /\ published[i].event.language_code = published[k].event.language_code
       /\ published[i].event.progress = 100
       /\ published[k].event.progress < 100
       /\ targets[<<published[k].event.project_id,
                    published[k].event.language_code>>].progress < 100


(***************************************************************************)
(* Claims about the order of writes and events                             *)
(***************************************************************************)

\* the positions of the target_update events a step published
NewTargetUpdates ==
    {i \in (Len(published) + 1) .. Len(published') :
        published'[i].event.type = "target_update"}

\* C26: a target_update event for (P, L, status, progress) is published on
\* P's project channel only when ProjectTarget (P, L) has been written with
\* that status and progress; a callback publishes at most one, none when
\* the target write fails (no target for L), and one whenever it wrote the
\* target.
C26_EventAfterTargetWrite ==
    [][CallbackStep =>
          /\ Cardinality(NewTargetUpdates) <= 1
          /\ \A i \in NewTargetUpdates :
                LET e == published'[i].event
                    k == <<e.project_id, e.language_code>>
                IN /\ published'[i].scope = "project"
                   /\ published'[i].key = e.project_id
                   /\ e.project_id = jobs[last'.job].project_id
                   /\ k \in DOMAIN targets'
                   /\ targets'[k] = [status |-> e.status, progress |-> e.progress]
          /\ targets' # targets => NewTargetUpdates # {}
          /\ /\ last'.response = "job" /\ last'.payload.has_meta
             /\ last'.payload.md.stage \in TableStages
             /\ last'.language_code # None
             => (NewTargetUpdates # {}
                   <=> <<jobs[last'.job].project_id, last'.language_code>>
                          \in DOMAIN targets)]_vars

\* a callback for a language without a target was answered and published
\* nothing, after a callback whose target write was published
C26_Witness ==
    /\ last.op = "set_job_status" /\ last.response = "job"
    /\ last.payload.md.stage = "done"
    /\ last.language_code = "ja"
    /\ <<jobs[last.job].project_id, "ja">> \notin DOMAIN targets
    /\ Len(published) = 1
    /\ published[1].event.type = "target_update"
    /\ published[1].event.language_code # "ja"


\* a step that handles, and answers, a segment_tts_completed callback with
\* segment results, a resolved language and a working translation store
SegmentTtsCompletedStep ==
    /\ CallbackStep
    /\ last'.response = "job"
    /\ last'.payload.has_meta
    /\ last'.payload.md.stage = "segment_tts_completed"
    /\ last'.payload.md.segments # <<>>
    /\ last'.payload.md.segments[1].audio_key # None
    /\ last'.language_code # None
    /\ ~last'.env.upsert_fails

\* the audio-completed events a step published
NewAudioEvents == {e \in NewEvents : e.type = "audio-completed"}

\* C27: on segment_tts_completed an audio-completed event for (segment s,
\* language L, key k) is published only when the SegmentTranslation (s, L)
\* has been patched to k and the duration was obtained; when the segment
\* cannot be resolved or has no translation for L nothing is patched or
\* published; when the duration lookup fails the patch stays and nothing is
\* published; in every case the ProjectTarget is set to (completed, 70).
C27_AudioEventAfterPatch ==
    [][SegmentTtsCompletedStep =>
          LET md == last'.payload.md
              p == jobs[last'.job].project_id
              L == last'.language_code
              k == md.segments[1].audio_key
              sid == ResolveSegmentId(Store, p, md)
              trs == {t \in DOMAIN translations :
                         /\ translations[t].segment_id = sid
                         /\ translations[t].language_code = L}
              others == {t \in DOMAIN translations : t \notin trs}
          IN /\ Len(translations') = Len(translations)
             /\ \A t \in others : translations'[t] = translations[t]
             /\ sid = Absent \/ trs = {} =>
                   translations' = translations /\ NewAudioEvents = {}
             /\ sid # Absent /\ trs # {} =>
                   /\ \E t \in trs : translations'[t].segment_audio_url = k
                   /\ NewAudioEvents
                         = IF last'.env.duration = "ok"
                           THEN {AudioCompletedEvent(p, L, sid.n, k)} ELSE {}
             /\ <<p, L>> \in DOMAIN targets =>
                   targets'[<<p, L>>] = [status |-> "completed", progress |-> 70]]_vars

\* a segment_tts_completed callback whose duration lookup failed left the
\* patched audio URL, the target at (completed, 70) and no audio event
C27_Witness ==
    /\ last.op = "set_job_status" /\ last.response = "job"
    /\ last.payload.md.stage = "segment_tts_completed"
    /\ last.env.duration # "ok"
    /\ \E t \in DOMAIN translations :
          /\ translations[t].segment_id = last.payload.md.segment_id
          /\ translations[t].language_code = last.language_code
          /\ translations[t].segment_audio_url = last.payload.md.segments[1].audio_key
    /\ \A i \in DOMAIN published : published[i].event.type # "audio-completed"
    /\ targets[<<jobs[last.job].project_id, last.language_code>>]
          = [status |-> "completed", progress |-> 70]


(***************************************************************************)
(* Claims about the independence of languages                              *)
(***************************************************************************)

\* C28: a callback for a Job whose target language is L changes at most the
\* ProjectTarget (P, L) of the Job's project, never the target of another
\* language or of another project, whatever its metadata holds or omits;
\* stated for the callbacks whose metadata names the Job's language or none.
C28_OnlyOwnTarget ==
    [][/\ CallbackStep
       /\ last'.payload.md.target_lang \in {None, jobs[last'.job].target_lang}
       /\ last'.payload.md.language_code \in {None, jobs[last'.job].target_lang}
       => \A k \in DOMAIN targets :
             k # <<jobs[last'.job].project_id, jobs[last'.job].target_lang>>
             => targets'[k] = targets[k]]_vars


(***************************************************************************)
(* Claims about the order of delivery                                      *)
(***************************************************************************)

\* the events published to the channel key of subscriber s, in publish order
PublishedTo(s) ==
    LET Mine(e) == e.scope = subs[s].scope /\ e.key = subs[s].key
        sel == SelectSeq(published, Mine)
    IN [i \in 1..Len(sel) |-> sel[i].event]

\* the events published while s and t were both attached, in publish order
PublishedToBoth(s, t) ==
    LET Both(e) == s \in e.live /\ t \in e.live
        sel == SelectSeq(published, Both)
    IN [i \in 1..Len(sel) |-> sel[i].event]

\* a is b with some elements left out, the others in the same order
RECURSIVE IsSubsequence(_, _)
IsSubsequence(a, b) ==
    IF a = <<>> THEN TRUE
    ELSE IF b = <<>> THEN FALSE
    ELSE IF Head(a) = Head(b) THEN IsSubsequence(Tail(a), Tail(b))
    ELSE IsSubsequence(a, Tail(b))

\* C29: each subscriber holds events published to its own scope and key
\* only, in the order they were published; two subscribers attached during
\* the same publishes hold them in the same order.
C29_PublishOrder ==
    /\ \A s \in Subs :
          subs[s].state # "idle" => IsSubsequence(queues[s], PublishedTo(s))
    /\ \A s \in Subs : subs[s].state = "idle" => queues[s] = <<>>
    /\ \A s, t \in Subs : IsSubsequence(PublishedToBoth(s, t), queues[s])

\* two subscribers of one key that hold the same two different events in
\* publish order
C29_Witness ==
    \E s, t \in Subs :
       /\ s # t
       /\ subs[s].state = "connected" /\ subs[t].state = "connected"
       /\ subs[s].scope = subs[t].scope /\ subs[s].key = subs[t].key
       /\ Len(queues[s]) = 2 /\ queues[s][1] # queues[s][2]
       /\ queues[s][1] = published[1].event /\ queues[s][2] = published[2].event
       /\ queues[t] = queues[s]

\* a reconcile call has just returned without raising, and the store took
\* its upserts
ReconcileWrote ==
    /\ last'.op = "reconcile" /\ ncalls' = ncalls + 1
    /\ ~last'.raised /\ ~last'.env.upsert_fails

\* the rows of segment_translations the step added or changed
RowsWritten ==
    {t \in DOMAIN translations' :
        t \notin DOMAIN translations \/ translations'[t] # translations[t]}

\* C30: after check_and_create_segments(P, segments, L, texts) every input
\* element whose index is the segment_index of a ProjectSegment of P has a
\* SegmentTranslation in L on such a segment whose target_text and
\* segment_audio_url are the ones of the call's input (of the last element
\* with that index; the URL null when the element has no audio_file),
\* whatever the row held before; every row the call added or changed is in
\* L and references a ProjectSegment of P, and it adds at most one row per
\* matched index.
C30_UpsertOverwrites ==
    [][ReconcileWrote =>
        LET p == last'.args[1]
            segs == last'.args[2]
            lang == last'.args[3]
            texts == last'.args[4]
            Idx(i) == TranslationIndex(segs[i], i - 1)
            OfP(k) == segments'[k].project_id.v = p
            Matched(i) == \E k \in DOMAIN segments' :
                              OfP(k) /\ segments'[k].segment_index = Idx(i)
            LastFor(i) == CHOOSE j \in DOMAIN segs :
                              /\ Idx(j) = Idx(i)
                              /\ \A x \in DOMAIN segs : Idx(x) = Idx(i) => x <= j
        IN /\ \A i \in DOMAIN segs : Matched(i) =>
                 \E k \in DOMAIN segments', t \in DOMAIN translations' :
                    /\ OfP(k) /\ segments'[k].segment_index = Idx(i)
                    /\ translations'[t].segment_id = S(segments'[k]._id)
                    /\ translations'[t].language_code = lang
                    /\ translations'[t].target_text =
                          (IF LastFor(i) <= Len(texts) THEN texts[LastFor(i)]
                           ELSE IF segs[LastFor(i)].prompt_text = None THEN ""
                           ELSE segs[LastFor(i)].prompt_text)
                    /\ translations'[t].segment_audio_url =
                          segs[LastFor(i)].audio_file
           /\ \A t \in RowsWritten :
                 /\ translations'[t].language_code = lang
                 /\ \E k \in DOMAIN segments' :
                       OfP(k) /\ translations'[t].segment_id = S(segments'[k]._id)
           /\ Len(translations') - Len(translations)
                 <= Cardinality({Idx(i) : i \in {x \in DOMAIN segs : Matched(x)}})
       ]_vars

\* C30 witness: the audio of a translation was patched to n.wav and
\* broadcast, and the reconcile call that followed left the row with the
\* URL of its own input
C30_Witness ==
    /\ last.op = "reconcile" /\ ~last.raised /\ ~last.env.upsert_fails
    /\ \E e \in DOMAIN published, t \in DOMAIN translations :
          /\ published[e].event.type = "audio-completed"
          /\ published[e].event.audio = "n.wav"
          /\ translations[t].segment_id = S(published[e].event.segment)
          /\ translations[t].language_code = published[e].event.language_code
          /\ last.args[3] = translations[t].language_code
          /\ translations[t].segment_audio_url # "n.wav"

====
